---- MODULE Spec2Model ----
(***************************************************************************)
(* Admin panel of src/src/app/page.tsx (the second, current copy of the    *)
(* component, lines 587-1399): the session gate (auth listener, fallback   *)
(* timer, sign-in, sign-out, the admin check loadIfAdmin), the realtime    *)
(* subscriptions' lifetime, and the roster (checkbox toggles, per-row      *)
(* saves).  The document store and the auth provider are the environment:  *)
(* every call to them may succeed or fail, and every await is a point      *)
(* where other callbacks may run.                                          *)
(***************************************************************************)
EXTENDS Integers, Sequences, FiniteSets, TLC

(***************************************************************************)
(* Bounds of the model.                                                    *)
(***************************************************************************)
MaxAuthClicks == 2   \* submissions of the sign-in form plus clicks on "Sign out"
MaxToggles == 2      \* checkbox clicks in one behaviour
MaxSends == 2        \* chat messages the admin gets accepted in one behaviour
MaxExternal == 2     \* writes of other clients to the chat or the live session
MaxNow == 3          \* the clock's last value
MaxLocks == 2        \* clicks on Lock Answer that start a write
MaxConfigs == 2      \* clicks on Save config in one behaviour
MaxSaves == 2        \* clicks on a row's Save button in one behaviour

(***************************************************************************)
(* Values.                                                                 *)
(***************************************************************************)
Null == "null"                 \* JavaScript null, in a slot that holds strings
Undefined == "undefined"       \* useState(undefined) of authUser
OperatorEmail == "admin@gmail.com"
AccessDenied == "Access denied: admin only"
StoreError == "store call failed"        \* (err as Error).message of a store failure
SignInError == "sign-in failed"          \* (err as Error).message of a rejected sign-in

\* The identities the auth provider knows: u1 is the hardcoded operator,
\* without display name; u2 is an ordinary account.
Uids == {"u1", "u2"}
EmailOf(u) == IF u = "u1" THEN OperatorEmail ELSE "player@x.com"
DisplayNameOf(u) == IF u = "u1" THEN Null ELSE "Player Two"
Emails == {EmailOf(u) : u \in Uids}

\* Documents of the login collection: one per identity (keyed by uid) and
\* records created under other keys at account creation.
ExtraIds == {"r1", "r2"}
DocIds == Uids \cup ExtraIds
DocOrder == <<"r1", "r2", "u1", "u2">>     \* the order a collection read returns

ToggleFields ==
    {"postapproval", "postedit", "postdelete", "postvisible", "kbsquiz", "bhajanquiz"}

\* The checkbox columns the model clicks on.
ToggleInputs == {"postapproval", "bhajanquiz"}

(***************************************************************************)
(* Documents are functions from field names to values; a field that is not *)
(* in the domain is absent (undefined when read).                          *)
(***************************************************************************)
\* No document (a missing snapshot, a null state), as a document without fields.
NoDoc == <<>>

HasField(d, f) == f \in DOMAIN d

\* { ...a, ...b }
Merge(a, b) == [f \in DOMAIN a \cup DOMAIN b |-> IF f \in DOMAIN b THEN b[f] ELSE a[f]]

\* !!d[f] of a boolean flag
Truthy(d, f) == HasField(d, f) /\ d[f] = TRUE

\* myData.isAdmin / byEmailDoc.isAdmin as a condition
IsAdmin(d) == Truthy(d, "isAdmin")

\* setDoc(doc(db, coll, id), data) without merge: the document is replaced.
SetDoc(coll, id, data) ==
    [d \in DOMAIN coll \cup {id} |-> IF d = id THEN data ELSE coll[d]]

\* updateDoc(doc(db, coll, id), fields): the named fields are replaced, the
\* others kept; the document must exist.
UpdateDoc(coll, id, fields) == [coll EXCEPT ![id] = Merge(@, fields)]

\* snap.docs of getDocs(query(collection(db, "login"), where("email", "==", e))),
\* each as { ...data(), id }.
QueryByEmail(coll, e) ==
    { Merge(coll[d], [id |-> d]) :
        d \in {x \in DOMAIN coll : HasField(coll[x], "email") /\ coll[x].email = e} }

\* The six toggle flags of a row as strict booleans.
SixFlags(u) == [f \in ToggleFields |-> Truthy(u, f)]

\* list.map((u) => ({ ...u, postapproval: !!u.postapproval, ... }))
Normalize(u) == Merge(u, SixFlags(u))

\* snap.docs.map((d) => ({ ...d.data(), id: d.id })) of the whole collection,
\* then normalized.
RECURSIVE RosterFrom(_, _)
RosterFrom(coll, order) ==
    IF order = <<>> THEN <<>>
    ELSE IF Head(order) \in DOMAIN coll
         THEN <<Normalize(Merge(coll[Head(order)], [id |-> Head(order)]))>>
                  \o RosterFrom(coll, Tail(order))
         ELSE RosterFrom(coll, Tail(order))

Roster(coll) == RosterFrom(coll, DocOrder)

(***************************************************************************)
(* State.                                                                  *)
(***************************************************************************)
VARIABLES
    \* the environment
    login,            \* the login collection: document id -> document
    currentUser,      \* auth.currentUser: a uid or Null
    pendingAuth,      \* auth state changes not yet delivered to the listener
    \* locals of the mount effect
    mounted, authResolved, fallbackPending,
    \* component state
    users, loading, error, authenticating, currentUid, authUser,
    rowSaving, rowErrorMap,
    \* open realtime listeners
    chatSubs, liveSubs,
    subFailed,        \* the channels whose listener an error has ended
    \* asynchronous calls in flight
    checks,           \* every loadIfAdmin invocation, in order of start
    signInOps, signOutOps, rowSaves,
    \* how often the bounded inputs were used
    nAuthClicks, nToggles, nSaves,
    \* the chat: the messages collection of the fixed session, and the form
    chatStore,        \* message id -> message document
    chatMessages, chatInput, chatSending, chatError,
    chatOps,          \* addDoc calls in flight
    \* the live session: the fixed document, and what the view has of it
    liveDoc,          \* the document, or NoDoc when there is none
    liveSession, lockSaving, lockError,
    lockOps,          \* updateDoc calls of lockAnswer in flight
    \* the global config: the document config/global, and the editor
    configDoc,        \* the document, or NoDoc when there is none
    timeleftforkbs, configSaving, configError,
    configOps,        \* loadConfig and saveConfig calls in flight
    lastSaved,        \* history: the input of the last save that was stored
    loadFailed,       \* the console holds loadConfig's error
    localZone,        \* the browser's time zone: with or without daylight saving
    \* the clock (Date.now()) and the use of the panel's bounded inputs
    now, nSends, nLocks, nExternal, nConfigs

envVars == <<login, currentUser, pendingAuth>>
effectVars == <<mounted, authResolved, fallbackPending>>
gateState == <<loading, error, authenticating, currentUid, authUser>>
rowState == <<users, rowSaving, rowErrorMap>>
subVars == <<chatSubs, liveSubs, subFailed>>
opVars == <<checks, signInOps, signOutOps, rowSaves>>
countVars == <<nAuthClicks, nToggles, nSaves>>
chatRest == <<chatStore, chatInput, chatSending, chatError, chatOps>>
chatVars == <<chatRest, chatMessages>>
lockRest == <<liveDoc, lockSaving, lockError, lockOps>>
lockVars == <<lockRest, liveSession>>
configVars == <<configDoc, timeleftforkbs, configSaving, configError, configOps, lastSaved,
                localZone, loadFailed>>
panelCount == <<now, nSends, nLocks, nExternal, nConfigs>>
panelRest == <<chatRest, lockRest, configVars, panelCount>>
panelVars == <<chatVars, lockVars, configVars, panelCount>>
vars == <<envVars, effectVars, gateState, rowState, subVars, opVars, countVars, panelVars>>

(***************************************************************************)
(* What is on screen (the conditional of the render).                      *)
(***************************************************************************)
View ==
    IF ~mounted THEN "none"
    ELSE IF loading THEN "loading"
    ELSE IF authUser = Null THEN "login"
    ELSE IF error # Null THEN "error"
    ELSE "panel"

LoginFormShown == View = "login"
PanelRendered == View = "panel"

(***************************************************************************)
(* Initial states: the component has mounted, the mount effect has         *)
(* registered the auth listener and the fallback timer, and the config     *)
(* and subscription effects have run with authUser undefined.  The store   *)
(* holds any of a small set of login collections, and the provider is      *)
(* about to report either a persisted session or none.                     *)
(***************************************************************************)
\* The shapes of the stored records: an admin's own record, an ordinary
\* member's own record, and a record created under another key that carries
\* an identity's email, with or without the admin mark.
AdminDoc(e) == [email |-> e, isAdmin |-> TRUE, postedit |-> TRUE]

MemberDoc(e) == [email |-> e, name |-> "Member", postapproval |-> TRUE]

RecordDoc(e, a) == [email |-> e, name |-> "Record", isAdmin |-> a, kbsquiz |-> TRUE]

\* The login collections the store starts with: empty; the operator's own
\* admin record beside a member's; every combination of zero, one and two
\* records matching u2's email, with and without u2's own record; a record
\* matching the operator's email.
InitialLogins ==
    { <<>>,
      [u1 |-> AdminDoc(EmailOf("u1")), u2 |-> MemberDoc(EmailOf("u2"))],
      [r1 |-> RecordDoc(EmailOf("u2"), FALSE)],
      [r1 |-> RecordDoc(EmailOf("u2"), TRUE), u2 |-> MemberDoc(EmailOf("u2"))],
      [r1 |-> RecordDoc(EmailOf("u2"), FALSE), r2 |-> RecordDoc(EmailOf("u2"), TRUE)],
      [r1 |-> RecordDoc(EmailOf("u2"), TRUE), r2 |-> RecordDoc(EmailOf("u2"), TRUE)],
      [r1 |-> RecordDoc(EmailOf("u1"), TRUE), u2 |-> MemberDoc(EmailOf("u2"))] }

InitComponent ==
    /\ mounted = TRUE
    /\ authResolved = FALSE
    /\ fallbackPending = TRUE
    /\ users = <<>>
    /\ loading = TRUE
    /\ error = Null
    /\ authenticating = FALSE
    /\ currentUid = Null
    /\ authUser = Undefined
    /\ rowSaving = <<>>
    /\ rowErrorMap = <<>>
    /\ chatSubs = 0
    /\ liveSubs = 0
    /\ subFailed = {}
    /\ checks = <<>>
    /\ signInOps = {}
    /\ signOutOps = {}
    /\ rowSaves = {}
    /\ nAuthClicks = 0
    /\ nToggles = 0
    /\ nSaves = 0

\* The panel's own state after the first render: nothing typed, nothing in
\* flight, no snapshot received.
InitPanel ==
    /\ chatMessages = <<>>
    /\ chatInput = ""
    /\ chatSending = FALSE
    /\ chatError = Null
    /\ chatOps = {}
    /\ liveSession = NoDoc
    /\ lockSaving = FALSE
    /\ lockError = Null
    /\ lockOps = {}
    /\ timeleftforkbs = ""
    /\ configSaving = FALSE
    /\ configError = Null
    /\ now = 1
    /\ nSends = 0
    /\ nLocks = 0
    /\ nExternal = 0
    /\ nConfigs = 0

\* The other collections hold nothing yet; the browser's zone has no
\* daylight saving.
EmptyStores ==
    /\ chatStore = <<>>
    /\ liveDoc = NoDoc
    /\ configDoc = NoDoc
    /\ lastSaved = Null
    /\ localZone = "fixed"
    /\ loadFailed = FALSE

Init ==
    /\ login \in InitialLogins
    /\ currentUser \in Uids \cup {Null}
    /\ pendingAuth = <<currentUser>>
    /\ InitComponent
    /\ InitPanel
    /\ EmptyStores
    /\ configOps = {}

(***************************************************************************)
(* The realtime subscriptions.  Both effects depend on [authUser]: when    *)
(* authUser changes, the previous run's cleanup cancels its listener (a    *)
(* run with a falsy authUser opened none) and the new run opens one when   *)
(* the new authUser is a user.  n is the number of open listeners.         *)
(***************************************************************************)
IsUser(x) == x \in Uids

Opened(x) == IF IsUser(x) THEN 1 ELSE 0

\* An effect whose cleanup does not cancel the listener it opened.
ChatEffectWithoutCleanup(n, old, new) == IF new = old THEN n ELSE n + Opened(new)

ChatEffect(n, old, new) == IF new = old THEN n ELSE n - Opened(old) + Opened(new)

LiveEffect(n, old, new) == IF new = old THEN n ELSE n - Opened(old) + Opened(new)

\* setAuthUser(user), followed by the two effects that depend on authUser.
SetAuthUser(user) ==
    /\ authUser' = user
    /\ chatSubs' = ChatEffect(chatSubs, authUser, user)
    /\ liveSubs' = LiveEffect(liveSubs, authUser, user)
    /\ subFailed' = IF user = authUser THEN subFailed ELSE {}
    /\ chatMessages' = IF user # authUser /\ ~IsUser(user) THEN <<>> ELSE chatMessages
    /\ liveSession' = IF user # authUser /\ ~IsUser(user) THEN NoDoc ELSE liveSession

(***************************************************************************)
(* loadIfAdmin(uid).  One record per invocation in flight; an invocation   *)
(* that has returned leaves no state behind.  pc is the await the          *)
(* invocation is suspended at:                                             *)
(*   "getDoc"    getDoc(login/uid)                                         *)
(*   "byEmail"   getDocs(where email == qemail)                            *)
(*   "backfill"  setDoc(login/uid, payload) inside the inner try           *)
(*   "bootstrap" setDoc(login/uid, payload) of the operator branch         *)
(*   "roster"    getDocs(collection login), after setCurrentUid(uid)       *)
(* The other fields record what the invocation has seen and done so far:   *)
(* whether login/uid marked admin, the records the email query matched     *)
(* and the records that carried the checked identity's own email at that   *)
(* moment, the writes it has issued and whether its write succeeded.       *)
(***************************************************************************)
RemoveAt(seq, i) == SubSeq(seq, 1, i - 1) \o SubSeq(seq, i + 1, Len(seq))

NewCheck(uid) ==
    [ uid |-> uid, pc |-> "getDoc", qemail |-> "", payload |-> {},
      sawUidAdmin |-> FALSE, matches |-> {}, ownMatches |-> {},
      writes |-> <<>>, wrote |-> FALSE ]

\* auth.currentUser?.email || ""
CurrentEmail == IF currentUser = Null THEN "" ELSE EmailOf(currentUser)

\* auth.currentUser?.displayName || "Admin"
CurrentNameOrAdmin ==
    IF currentUser = Null \/ DisplayNameOf(currentUser) \in {Null, ""} THEN "Admin"
    ELSE DisplayNameOf(currentUser)

\* byEmailSnap.docs[0] as a set of at most one record: the store fixes no
\* order for the matches, so any of them can be first.
FirstOf(matches) == IF matches = {} THEN {{}} ELSE {{m} : m \in matches}

\* if (byEmailDoc && byEmailDoc.isAdmin)
EmailPathAdmits(byEmailDoc) == \E d \in byEmailDoc : IsAdmin(d)

\* if (signedInEmail === "admin@gmail.com")
OperatorPathAdmits(signedInEmail) == signedInEmail = OperatorEmail

\* { ...byEmailDoc, email: byEmailDoc.email || auth.currentUser?.email || "" }
BackfillPayload(d) ==
    Merge(d, [email |-> IF HasField(d, "email") /\ d.email # "" THEN d.email
                        ELSE CurrentEmail])

\* { email: signedInEmail, name: auth.currentUser?.displayName || "Admin", isAdmin: true }
BootstrapPayload(signedInEmail) ==
    [email |-> signedInEmail, name |-> CurrentNameOrAdmin, isAdmin |-> TRUE]

\* setCurrentUid(uid); then getDocs(collection(db, "login")) is issued.
Approved(c) == [c EXCEPT !.pc = "roster"]

\* The auth listener: onAuthStateChanged(auth, (user) => ...).
AuthListenerDeliver ==
    /\ mounted
    /\ pendingAuth # <<>>
    /\ LET user == Head(pendingAuth) IN
        /\ pendingAuth' = Tail(pendingAuth)
        /\ authResolved' = TRUE
        /\ SetAuthUser(user)
        /\ IF user # Null
             THEN /\ checks' = Append(checks, NewCheck(user))
                  /\ UNCHANGED <<error, loading>>
             ELSE /\ error' = Null
                  /\ loading' = FALSE
                  /\ UNCHANGED checks
    /\ UNCHANGED <<login, currentUser, mounted, fallbackPending, authenticating,
                   currentUid, rowState, signInOps, signOutOps, rowSaves, countVars,
                   panelRest>>

\* A timer that forces the login form whether or not the provider resolved.
FallbackFiresAlways ==
    /\ fallbackPending
    /\ fallbackPending' = FALSE
    /\ loading' = FALSE
    /\ SetAuthUser(Null)
    /\ UNCHANGED <<envVars, mounted, authResolved, error, authenticating, currentUid,
                   rowState, opVars, countVars,
                   panelRest>>

\* A timer that ends the loading state and leaves the identity unresolved.
FallbackKeepsUnresolved ==
    /\ fallbackPending
    /\ fallbackPending' = FALSE
    /\ loading' = IF mounted /\ ~authResolved THEN FALSE ELSE loading
    /\ UNCHANGED <<envVars, mounted, authResolved, error, authenticating, currentUid,
                   authUser, subVars, chatMessages, liveSession,
                   rowState, opVars, countVars,
                   panelRest>>

\* The fallback timer: setTimeout(() => { if (mounted && !authResolved) ... }, 1500).
FallbackFires ==
    /\ fallbackPending
    /\ fallbackPending' = FALSE
    /\ IF mounted /\ ~authResolved
         THEN /\ loading' = FALSE
              /\ SetAuthUser(Null)
         ELSE UNCHANGED <<loading, authUser, subVars, chatMessages, liveSession>>
    /\ UNCHANGED <<envVars, mounted, authResolved, error, authenticating, currentUid,
                   rowState, opVars, countVars,
                   panelRest>>

\* The cleanups of the effects: mounted = false, the auth listener is
\* unsubscribed (what it was still to be told is dropped), the timer is
\* cleared, and each subscription effect cancels its listener.
Unmount ==
    /\ mounted
    /\ mounted' = FALSE
    /\ fallbackPending' = FALSE
    /\ pendingAuth' = <<>>
    /\ chatSubs' = chatSubs - Opened(authUser)
    /\ liveSubs' = liveSubs - Opened(authUser)
    /\ subFailed' = {}
    /\ UNCHANGED <<login, currentUser, authResolved, gateState, rowState, opVars,
                   countVars,
                   panelVars>>

\* A catch that ends the loading state without a message.
CatchWithoutMessage(i) ==
    /\ error' = error
    /\ loading' = IF mounted THEN FALSE ELSE loading
    /\ checks' = RemoveAt(checks, i)

\* catch (err) { if (mounted) setError(message) } finally { if (mounted) setLoading(false) }
CatchFinally(i) ==
    /\ error' = IF mounted THEN StoreError ELSE error
    /\ loading' = IF mounted THEN FALSE ELSE loading
    /\ checks' = RemoveAt(checks, i)

\* getDoc(login/uid) returns.
CheckGetDocOk(i) ==
    /\ checks[i].pc = "getDoc"
    /\ LET c == checks[i]
           myAdmin == c.uid \in DOMAIN login /\ IsAdmin(login[c.uid])
       IN IF myAdmin
            THEN /\ currentUid' = c.uid
                 /\ checks' = [checks EXCEPT ![i] = Approved([c EXCEPT !.sawUidAdmin = TRUE])]
            ELSE /\ checks' = [checks EXCEPT ![i].pc = "byEmail", ![i].qemail = CurrentEmail]
                 /\ UNCHANGED currentUid
    /\ UNCHANGED <<envVars, effectVars, loading, error, authenticating, authUser,
                   rowState, subVars, signInOps, signOutOps, rowSaves, countVars,
                   panelVars>>

\* The email query returns, with byEmailDoc the record at docs[0], if any.
CheckByEmailOk(i, byEmailDoc) ==
    /\ checks[i].pc = "byEmail"
    /\ LET c == [checks[i] EXCEPT !.matches = QueryByEmail(login, checks[i].qemail),
                                  !.ownMatches = QueryByEmail(login, EmailOf(checks[i].uid))]
       IN IF EmailPathAdmits(byEmailDoc)
            THEN /\ checks' = [checks EXCEPT ![i] =
                        [c EXCEPT !.pc = "backfill",
                                  !.payload = {BackfillPayload(d) : d \in byEmailDoc},
                                  !.writes = Append(@, [target |-> c.uid, via |-> "backfill"])]]
                 /\ UNCHANGED <<error, loading>>
            ELSE IF OperatorPathAdmits(CurrentEmail)
            THEN /\ checks' = [checks EXCEPT ![i] =
                        [c EXCEPT !.pc = "bootstrap",
                                  !.payload = {BootstrapPayload(CurrentEmail)},
                                  !.writes = Append(@, [target |-> c.uid, via |-> "bootstrap"])]]
                 /\ UNCHANGED <<error, loading>>
            ELSE /\ error' = AccessDenied
                 /\ loading' = FALSE
                 /\ checks' = RemoveAt(checks, i)
    /\ UNCHANGED <<envVars, effectVars, authenticating, currentUid, authUser,
                   rowState, subVars, signInOps, signOutOps, rowSaves, countVars,
                   panelVars>>

\* The backfill setDoc succeeds.
CheckBackfillOk(i) ==
    /\ checks[i].pc = "backfill"
    /\ login' = SetDoc(login, checks[i].uid, CHOOSE d \in checks[i].payload : TRUE)
    /\ currentUid' = checks[i].uid
    /\ checks' = [checks EXCEPT ![i] = Approved([checks[i] EXCEPT !.wrote = TRUE])]
    /\ UNCHANGED <<currentUser, pendingAuth, effectVars, loading, error, authenticating,
                   authUser, rowState, subVars, signInOps, signOutOps, rowSaves, countVars,
                   panelVars>>

\* A catch that lets the failure reach the outer catch.
BackfillRethrow(i) ==
    /\ CatchFinally(i)
    /\ UNCHANGED currentUid

\* A catch that issues the write again.
BackfillRetry(i) ==
    /\ checks' = [checks EXCEPT ![i].writes =
                      Append(@, [target |-> checks[i].uid, via |-> "backfill"])]
    /\ UNCHANGED <<currentUid, error, loading>>

\* catch (e) { console.warn(...) } of the inner try: the failure is dropped
\* and the function goes on to setCurrentUid(uid) and the roster read.
BackfillCatch(i) ==
    /\ currentUid' = checks[i].uid
    /\ checks' = [checks EXCEPT ![i] = Approved(checks[i])]
    /\ UNCHANGED <<error, loading>>

\* The backfill setDoc fails.
CheckBackfillFail(i) ==
    /\ checks[i].pc = "backfill"
    /\ BackfillCatch(i)
    /\ UNCHANGED <<envVars, effectVars, authenticating, authUser,
                   rowState, subVars, signInOps, signOutOps, rowSaves, countVars,
                   panelVars>>

\* The operator branch's setDoc succeeds.
CheckBootstrapOk(i) ==
    /\ checks[i].pc = "bootstrap"
    /\ login' = SetDoc(login, checks[i].uid, CHOOSE d \in checks[i].payload : TRUE)
    /\ currentUid' = checks[i].uid
    /\ checks' = [checks EXCEPT ![i] = Approved([checks[i] EXCEPT !.wrote = TRUE])]
    /\ UNCHANGED <<currentUser, pendingAuth, effectVars, loading, error, authenticating,
                   authUser, rowState, subVars, signInOps, signOutOps, rowSaves, countVars,
                   panelVars>>

\* The roster read returns.
CheckRosterOk(i) ==
    /\ checks[i].pc = "roster"
    /\ users' = IF mounted THEN Roster(login) ELSE users
    /\ loading' = IF mounted THEN FALSE ELSE loading
    /\ checks' = RemoveAt(checks, i)
    /\ UNCHANGED <<envVars, effectVars, error, authenticating, currentUid, authUser,
                   rowSaving, rowErrorMap, subVars, signInOps, signOutOps, rowSaves,
                   countVars,
                   panelVars>>

\* One of the awaited calls of the outer try rejects.
CheckStoreFails(i) ==
    /\ checks[i].pc \in {"getDoc", "byEmail", "bootstrap", "roster"}
    /\ CatchFinally(i)
    /\ UNCHANGED <<envVars, effectVars, authenticating, currentUid, authUser,
                   rowState, subVars, signInOps, signOutOps, rowSaves, countVars,
                   panelVars>>

(***************************************************************************)
(* Sign-in and sign-out.                                                   *)
(***************************************************************************)
\* handleSignIn up to its await: the form is on screen and its button enabled.
HandleSignIn(cred) ==
    /\ LoginFormShown
    /\ ~authenticating
    /\ nAuthClicks < MaxAuthClicks
    /\ nAuthClicks' = nAuthClicks + 1
    /\ authenticating' = TRUE
    /\ error' = Null
    /\ signInOps' = signInOps \cup {[cred |-> cred, pc |-> "calling"]}
    /\ UNCHANGED <<envVars, effectVars, loading, currentUid, authUser, rowState,
                   subVars, checks, signOutOps, rowSaves, nToggles, nSaves,
                   panelVars>>

\* The provider accepts the credentials: auth.currentUser changes and the
\* listeners are notified.  The provider notifies its listeners of one
\* change before it completes the next one.
SignInAccepted(op) ==
    /\ op.pc = "calling"
    /\ pendingAuth = <<>>
    /\ currentUser' = op.cred
    /\ pendingAuth' = IF mounted THEN <<op.cred>> ELSE <<>>
    /\ signInOps' = (signInOps \ {op}) \cup {[op EXCEPT !.pc = "resolved"]}
    /\ UNCHANGED <<login, effectVars, gateState, rowState, subVars, checks,
                   signOutOps, rowSaves, countVars,
                   panelVars>>

\* handleSignIn after its await, then finally.
SignInReturns(op) ==
    /\ op.pc = "resolved"
    /\ authenticating' = FALSE
    /\ signInOps' = signInOps \ {op}
    /\ UNCHANGED <<envVars, effectVars, loading, error, currentUid, authUser, rowState,
                   subVars, checks, signOutOps, rowSaves, countVars,
                   panelVars>>

\* signInWithEmailAndPassword rejects: catch, then finally.
SignInFails(op) ==
    /\ op.pc = "calling"
    /\ error' = SignInError
    /\ authenticating' = FALSE
    /\ signInOps' = signInOps \ {op}
    /\ UNCHANGED <<envVars, effectVars, loading, currentUid, authUser, rowState,
                   subVars, checks, signOutOps, rowSaves, countVars,
                   panelVars>>

\* handleSignOut up to its await: the button is in the panel.
HandleSignOut ==
    /\ PanelRendered
    /\ nAuthClicks < MaxAuthClicks
    /\ nAuthClicks' = nAuthClicks + 1
    /\ signOutOps' = signOutOps \cup {[n |-> nAuthClicks + 1, pc |-> "calling"]}
    /\ UNCHANGED <<envVars, effectVars, gateState, rowState, subVars, checks,
                   signInOps, rowSaves, nToggles, nSaves,
                   panelVars>>

\* The provider signs the user out; the listeners are notified of a change.
SignOutAccepted(op) ==
    /\ op.pc = "calling"
    /\ pendingAuth = <<>>
    /\ currentUser' = Null
    /\ pendingAuth' = IF currentUser # Null /\ mounted THEN <<Null>> ELSE <<>>
    /\ signOutOps' = (signOutOps \ {op}) \cup {[op EXCEPT !.pc = "resolved"]}
    /\ UNCHANGED <<login, effectVars, gateState, rowState, subVars, checks,
                   signInOps, rowSaves, countVars,
                   panelVars>>

\* handleSignOut after its await.
SignOutReturns(op) ==
    /\ op.pc = "resolved"
    /\ currentUid' = Null
    /\ users' = <<>>
    /\ signOutOps' = signOutOps \ {op}
    /\ UNCHANGED <<envVars, effectVars, loading, error, authenticating, authUser,
                   rowSaving, rowErrorMap, subVars, checks, signInOps, rowSaves, countVars,
                   panelVars>>

\* signOut rejects: handleSignOut has no catch, nothing after the await runs.
SignOutFails(op) ==
    /\ op.pc = "calling"
    /\ signOutOps' = signOutOps \ {op}
    /\ UNCHANGED <<envVars, effectVars, gateState, rowState, subVars, checks,
                   signInOps, rowSaves, countVars,
                   panelVars>>

(***************************************************************************)
(* The roster: checkbox toggles and per-row saves.                         *)
(***************************************************************************)
\* rowSaving[id] / rowErrorMap[id] as the render reads them: an id without
\* an entry reads undefined, which is falsy.
\* A Save button that is never disabled.
RowSavingIgnored(id) == FALSE

RowSavingOf(id) == id \in DOMAIN rowSaving /\ rowSaving[id]

RowErrorOf(id) == IF id \in DOMAIN rowErrorMap THEN rowErrorMap[id] ELSE Null

\* setRowSaving({ [id]: v }): the other rows' entries are dropped.
OverwriteRowSaving(p, id, v) == [x \in {id} |-> v]

\* setRowSaving((p) => ({ ...p, [id]: v }))
setRowSavingState(p, id, v) == [x \in DOMAIN p \cup {id} |-> IF x = id THEN v ELSE p[x]]

\* setRowErrorMap({ [id]: msg }): the other rows' errors are dropped.
OverwriteRowError(p, id, msg) == [x \in {id} |-> msg]

\* setRowErrorMap((p) => ({ ...p, [id]: msg }))
setRowErrorState(p, id, msg) == [x \in DOMAIN p \cup {id} |-> IF x = id THEN msg ELSE p[x]]

\* A map that flips the field in every row.
ToggleEveryRow(prev, userId, field) ==
    [k \in DOMAIN prev |-> Merge(prev[k], [f \in {field} |-> ~Truthy(prev[k], field)])]

\* prev.map((u) => (u.id === userId ? { ...u, [field]: !u[field] } : u))
ToggleRow(prev, userId, field) ==
    [k \in DOMAIN prev |->
        IF prev[k].id = userId
          THEN Merge(prev[k], [f \in {field} |-> ~Truthy(prev[k], field)])
          ELSE prev[k]]

\* handleCheckboxChange(userId, field): a click on a checkbox of a listed row.
HandleCheckboxChange(userId, field) ==
    /\ PanelRendered
    /\ \E k \in DOMAIN users : users[k].id = userId
    /\ nToggles < MaxToggles
    /\ nToggles' = nToggles + 1
    /\ users' = ToggleRow(users, userId, field)
    /\ UNCHANGED <<envVars, effectVars, gateState, rowSaving, rowErrorMap, subVars,
                   opVars, nAuthClicks, nSaves,
                   panelVars>>

\* The whole row, with the flags as booleans.
SaveWholeRow(u) == Merge(u, [f \in ToggleFields |-> Truthy(u, f)])

\* A save that sends one flag of the row.
SaveOneFlag(u) == [f \in {"postapproval"} |-> Truthy(u, f)]

\* The object passed to updateDoc by saveUser(u).
SaveUserPayload(u) == [f \in ToggleFields |-> Truthy(u, f)]

\* saveUser(u) up to its await: a click on the enabled Save button of row u.
SaveUser(u) ==
    /\ PanelRendered
    /\ \E k \in DOMAIN users : users[k] = u
    /\ ~RowSavingOf(u.id)
    /\ nSaves < MaxSaves
    /\ nSaves' = nSaves + 1
    /\ rowSaving' = setRowSavingState(rowSaving, u.id, TRUE)
    /\ rowErrorMap' = setRowErrorState(rowErrorMap, u.id, Null)
    /\ rowSaves' = rowSaves \cup {[u |-> u, n |-> nSaves + 1]}
    /\ UNCHANGED <<envVars, effectVars, gateState, users, subVars, checks, signInOps,
                   signOutOps, nAuthClicks, nToggles,
                   panelVars>>

\* updateDoc resolves: setRowErrorState(u.id, null), then finally.
SaveUserOk(op) ==
    /\ op.u.id \in DOMAIN login
    /\ login' = UpdateDoc(login, op.u.id, SaveUserPayload(op.u))
    /\ rowErrorMap' = setRowErrorState(rowErrorMap, op.u.id, Null)
    /\ rowSaving' = setRowSavingState(rowSaving, op.u.id, FALSE)
    /\ rowSaves' = rowSaves \ {op}
    /\ UNCHANGED <<currentUser, pendingAuth, effectVars, gateState, users, subVars,
                   checks, signInOps, signOutOps, countVars,
                   panelVars>>

\* A catch that also puts the stored flags back into the row.
SaveUserFailRollback(op) ==
    /\ rowErrorMap' = setRowErrorState(rowErrorMap, op.u.id, StoreError)
    /\ rowSaving' = setRowSavingState(rowSaving, op.u.id, FALSE)
    /\ rowSaves' = rowSaves \ {op}
    /\ users' = [k \in DOMAIN users |->
                    IF users[k].id = op.u.id /\ op.u.id \in DOMAIN login
                      THEN Merge(users[k], SixFlags(login[op.u.id]))
                      ELSE users[k]]
    /\ UNCHANGED <<envVars, effectVars, gateState, subVars, checks, signInOps,
                   signOutOps, countVars,
                   panelVars>>

\* updateDoc rejects: catch, then finally.
SaveUserFail(op) ==
    /\ rowErrorMap' = setRowErrorState(rowErrorMap, op.u.id, StoreError)
    /\ rowSaving' = setRowSavingState(rowSaving, op.u.id, FALSE)
    /\ rowSaves' = rowSaves \ {op}
    /\ UNCHANGED <<envVars, effectVars, gateState, users, subVars, checks, signInOps,
                   signOutOps, countVars,
                   panelVars>>

\* The rows as another admin session holds them when it saves: no flag
\* set, one set, all set.
OtherFlagSets == {{}, {"postedit"}, ToggleFields}

OtherRow(id, set) == Merge([id |-> id], [f \in ToggleFields |-> f \in set])

\* saveUser(u) of another admin session: its updateDoc is applied.
OtherSessionSave(u) ==
    /\ u.id \in DOMAIN login
    /\ nExternal < MaxExternal
    /\ nExternal' = nExternal + 1
    /\ login' = UpdateDoc(login, u.id, SaveUserPayload(u))
    /\ UNCHANGED <<currentUser, pendingAuth, effectVars, gateState, rowState, subVars,
                   opVars, countVars, chatVars, lockVars, configVars,
                   now, nSends, nLocks, nConfigs>>

(***************************************************************************)
(* The chat.  A stored createdAt is an epoch number, a string, or a        *)
(* timestamp with seconds and nanoseconds; the admin's own messages carry  *)
(* Date.now().  The clock counts seconds, Date.now() milliseconds.         *)
(***************************************************************************)
DateNow == now * 1000

\* The createdAt values another client writes at the present instant.
NumberAt(t) == [kind |-> "number", n |-> t * 1000]
StringAt(t) == [kind |-> "string", parsed |-> t * 1000]
TimestampAt(t) == [kind |-> "timestamp", seconds |-> t, nanoseconds |-> 0]
Representations == {"number", "string", "timestamp"}
CreatedAtNow(kind) ==
    CASE kind = "number" -> NumberAt(now)
      [] kind = "string" -> StringAt(now)
      [] kind = "timestamp" -> TimestampAt(now)

\* getTimestampValue(value), in milliseconds.
getTimestampValue(value) ==
    CASE value.kind = "number" -> IF value.n = 0 THEN DateNow ELSE value.n
      [] value.kind = "string" -> value.parsed
      [] value.kind = "timestamp" ->
            IF value.seconds # 0
              THEN value.seconds * 1000 + (value.nanoseconds \div 1000000)
              ELSE DateNow

\* The store's order of values of different types in orderBy("createdAt"):
\* numbers before timestamps before strings; within a type by value (the
\* strings here are ISO strings of one length, ordered as their instants).
TypeRank(value) ==
    CASE value.kind = "number" -> 1
      [] value.kind = "timestamp" -> 2
      [] value.kind = "string" -> 3

WithinType(value) ==
    CASE value.kind = "number" -> value.n
      [] value.kind = "timestamp" -> value.seconds * 1000 + (value.nanoseconds \div 1000000)
      [] value.kind = "string" -> value.parsed

\* Document i comes before document j in the query's result.
QueryBefore(coll, i, j) ==
    LET a == coll[i].createdAt
        b == coll[j].createdAt
    IN \/ TypeRank(a) < TypeRank(b)
       \/ TypeRank(a) = TypeRank(b) /\ WithinType(a) < WithinType(b)
       \/ TypeRank(a) = TypeRank(b) /\ WithinType(a) = WithinType(b) /\ i < j

RECURSIVE QueryOrdered(_, _)
QueryOrdered(coll, ids) ==
    IF ids = {} THEN <<>>
    ELSE LET first == CHOOSE i \in ids : \A j \in ids \ {i} : QueryBefore(coll, i, j)
         IN <<Merge(coll[first], [id |-> first])>> \o QueryOrdered(coll, ids \ {first})

\* snapshot.docs.map((doc) => ({ id: doc.id, ...doc.data() })) of
\* query(messagesRef, orderBy("createdAt", "asc")).
ChatQuery(coll) == QueryOrdered(coll, DOMAIN coll)

\* What can be typed into the chat input, and String.prototype.trim on it.
ChatInputs == {"", " ", "hi", " hi "}
Trim(str) ==
    CASE str = " " -> ""
      [] str = " hi " -> "hi"
      [] OTHER -> str

\* auth.currentUser?.displayName ?? auth.currentUser?.email ?? "Admin"
SenderName ==
    IF currentUser = Null THEN "Admin"
    ELSE IF DisplayNameOf(currentUser) # Null THEN DisplayNameOf(currentUser)
    ELSE EmailOf(currentUser)

\* A guard that does not look at the in-flight flag.
SendRejectedUnlessEmpty == Trim(chatInput) = "" \/ ~IsUser(authUser)

\* if (!chatInput.trim() || chatSending || !authUser) return;
SendRejected == Trim(chatInput) = "" \/ chatSending \/ ~IsUser(authUser)

\* The document passed to addDoc.
ChatMessageDoc ==
    [text |-> Trim(chatInput), sender |-> SenderName, senderRole |-> "admin",
     createdAt |-> [kind |-> "number", n |-> DateNow]]

\* onChange of the chat input; the input is disabled while a send is in flight.
SetChatInput(text) ==
    /\ PanelRendered
    /\ ~chatSending
    /\ text # chatInput
    /\ chatInput' = text
    /\ UNCHANGED <<envVars, effectVars, gateState, rowState, subVars, opVars, countVars,
                   chatStore, chatMessages, chatSending, chatError, chatOps,
                   lockVars, configVars, panelCount>>

\* sendChatMessage up to its await, on a submit event of the chat form.
SendChatMessage ==
    /\ PanelRendered
    /\ IF SendRejected
         THEN UNCHANGED <<chatSending, chatOps, nSends>>
         ELSE /\ nSends < MaxSends
              /\ nSends' = nSends + 1
              /\ chatSending' = TRUE
              /\ chatOps' = chatOps \cup {[doc |-> ChatMessageDoc, n |-> nSends + 1]}
    /\ UNCHANGED <<envVars, effectVars, gateState, rowState, subVars, opVars, countVars,
                   chatStore, chatMessages, chatInput, chatError,
                   lockVars, configVars, now, nLocks, nExternal, nConfigs>>

\* addDoc resolves: the message is in the collection under a new id.
SendChatOk(op) ==
    /\ chatStore' = Append(chatStore, op.doc)
    /\ chatInput' = ""
    /\ chatError' = Null
    /\ chatSending' = FALSE
    /\ chatOps' = chatOps \ {op}
    /\ UNCHANGED <<envVars, effectVars, gateState, rowState, subVars, opVars, countVars,
                   chatMessages, lockVars, configVars, panelCount>>

\* A catch that also clears the input.
SendChatFailClearing(op) ==
    /\ chatError' = "Failed to send message. Please try again."
    /\ chatInput' = ""
    /\ chatSending' = FALSE
    /\ chatOps' = chatOps \ {op}
    /\ UNCHANGED <<envVars, effectVars, gateState, rowState, subVars, opVars, countVars,
                   chatStore, chatMessages, lockVars, configVars, panelCount>>

\* addDoc rejects: catch, then finally.
SendChatFail(op) ==
    /\ chatError' = "Failed to send message. Please try again."
    /\ chatSending' = FALSE
    /\ chatOps' = chatOps \ {op}
    /\ UNCHANGED <<envVars, effectVars, gateState, rowState, subVars, opVars, countVars,
                   chatStore, chatMessages, chatInput, lockVars, configVars, panelCount>>

\* The error callback of the chat's onSnapshot; the listener gets no
\* further event.
ChatSubscriptionError ==
    /\ chatSubs > 0
    /\ "chat" \notin subFailed
    /\ subFailed' = subFailed \cup {"chat"}
    /\ chatError' = "Unable to load chat messages right now."
    /\ UNCHANGED <<envVars, effectVars, gateState, rowState, chatSubs, liveSubs, opVars,
                   countVars, chatStore, chatMessages, chatInput, chatSending, chatOps,
                   lockVars, configVars, panelCount>>

\* The success callback of the chat's onSnapshot.
ChatSnapshot ==
    /\ chatSubs > 0
    /\ "chat" \notin subFailed
    /\ chatMessages' = ChatQuery(chatStore)
    /\ chatError' = Null
    /\ UNCHANGED <<envVars, effectVars, gateState, rowState, subVars, opVars, countVars,
                   chatStore, chatInput, chatSending, chatOps,
                   lockVars, configVars, panelCount>>

\* Another client (the player's app) adds a message, with its own
\* representation of the present instant.
ExternalChatMessage(kind) ==
    /\ nExternal < MaxExternal
    /\ nExternal' = nExternal + 1
    /\ chatStore' = Append(chatStore,
          [text |-> "hello", sender |-> "Player", senderRole |-> "player",
           createdAt |-> CreatedAtNow(kind)])
    /\ UNCHANGED <<envVars, effectVars, gateState, rowState, subVars, opVars, countVars,
                   chatMessages, chatInput, chatSending, chatError, chatOps,
                   lockVars, configVars, now, nSends, nLocks, nConfigs>>

\* Time passes.
Tick ==
    /\ now < MaxNow
    /\ now' = now + 1
    /\ UNCHANGED <<envVars, effectVars, gateState, rowState, subVars, opVars, countVars,
                   chatVars, lockVars, configVars, nSends, nLocks, nExternal, nConfigs>>

(***************************************************************************)
(* The live session.  Other clients drive the document: the quiz starts a  *)
(* round, the player locks an answer, the session is removed.              *)
(***************************************************************************)
Rounds == {"q1", "q2"}

\* The document at the start of a round.
RoundDoc(q) ==
    [phase |-> "question", question |-> q, selected |-> 0,
     userLocked |-> FALSE, adminLocked |-> FALSE]

\* The same before the admin side has ever written to it.
FreshDoc(q) == [phase |-> "question", question |-> q, selected |-> 0, userLocked |-> FALSE]

ExternalKinds == {"reset", "userLock", "remove"}

\* What a write of another client leaves in the store.
ExternalWrite(kind, q) ==
    CASE kind = "reset" -> RoundDoc(q)
      [] kind = "userLock" ->
            IF liveDoc = NoDoc THEN NoDoc ELSE Merge(liveDoc, [userLocked |-> TRUE])
      [] kind = "remove" -> NoDoc

ExternalSessionUpdate(kind, q) ==
    /\ nExternal < MaxExternal
    /\ ExternalWrite(kind, q) # liveDoc
    /\ nExternal' = nExternal + 1
    /\ liveDoc' = ExternalWrite(kind, q)
    /\ UNCHANGED <<envVars, effectVars, gateState, rowState, subVars, opVars, countVars,
                   chatVars, liveSession, lockSaving, lockError, lockOps, configVars,
                   now, nSends, nLocks, nConfigs>>

\* The error callback of the live session's onSnapshot: the error is
\* logged; the listener gets no further event.
LiveSubscriptionError ==
    /\ liveSubs > 0
    /\ "live" \notin subFailed
    /\ subFailed' = subFailed \cup {"live"}
    /\ UNCHANGED <<envVars, effectVars, gateState, rowState, chatSubs, liveSubs, opVars,
                   countVars, chatVars, lockVars, configVars, panelCount>>

\* The success callback of the live session's onSnapshot.
LiveSnapshot ==
    /\ liveSubs > 0
    /\ "live" \notin subFailed
    /\ liveSession' = liveDoc
    /\ UNCHANGED <<envVars, effectVars, gateState, rowState, subVars, opVars, countVars,
                   chatVars, lockRest, configVars, panelCount>>

\* A panel that renders the session block without a session.
LockButtonAlwaysRendered == PanelRendered

\* The button is rendered when there is a live session.
LockButtonRendered == PanelRendered /\ liveSession # NoDoc

\* A button that ignores the player's lock.
LockDisabledUnlessLocked == lockSaving \/ Truthy(liveSession, "adminLocked")

\* A button that ignores the admin's lock.
LockDisabledUnlessUnlocked == lockSaving \/ ~Truthy(liveSession, "userLocked")

\* disabled={lockSaving || !liveSession.userLocked || liveSession.adminLocked}
LockDisabled ==
    lockSaving \/ ~Truthy(liveSession, "userLocked") \/ Truthy(liveSession, "adminLocked")

\* The object passed to updateDoc by lockAnswer.
LockPayload == [adminLocked |-> TRUE]

\* A click on Lock Answer: nothing when the button is disabled, otherwise
\* lockAnswer up to its await.
LockAnswer ==
    /\ LockButtonRendered
    /\ IF LockDisabled \/ lockSaving \/ liveSession = NoDoc
         THEN UNCHANGED <<lockSaving, lockError, lockOps, nLocks>>
         ELSE /\ nLocks < MaxLocks
              /\ nLocks' = nLocks + 1
              /\ lockSaving' = TRUE
              /\ lockError' = Null
              /\ lockOps' = lockOps \cup {[payload |-> LockPayload, n |-> nLocks + 1]}
    /\ UNCHANGED <<envVars, effectVars, gateState, rowState, subVars, opVars, countVars,
                   chatVars, liveDoc, liveSession, configVars,
                   now, nSends, nExternal, nConfigs>>

\* updateDoc resolves: the document exists and the field is merged into it.
LockWriteOk(op) ==
    /\ liveDoc # NoDoc
    /\ liveDoc' = Merge(liveDoc, op.payload)
    /\ lockSaving' = FALSE
    /\ lockOps' = lockOps \ {op}
    /\ UNCHANGED <<envVars, effectVars, gateState, rowState, subVars, opVars, countVars,
                   chatVars, liveSession, lockError, configVars, panelCount>>

\* updateDoc rejects (also when there is no document): catch, then finally.
LockWriteFail(op) ==
    /\ lockError' = "Failed to lock answer. Please try again."
    /\ lockSaving' = FALSE
    /\ lockOps' = lockOps \ {op}
    /\ UNCHANGED <<envVars, effectVars, gateState, rowState, subVars, opVars, countVars,
                   chatVars, liveDoc, liveSession, configVars, panelCount>>

(***************************************************************************)
(* The options of the observed session.  Another client writes the whole   *)
(* document: the option texts (an empty text is an option removed by the   *)
(* 50:50 lifeline), the player's selection, the question with the index of *)
(* the right answer, and the lock marks; any of the optional fields may be *)
(* missing.  Indices count from 0 as in the source.                        *)
(***************************************************************************)
OptionLists == {<<>>, <<"a", "b">>, <<"a", "", "c">>}

OptionIndices == 0 .. 2

Optional(field, values) == {<<>>} \cup {[f \in {field} |-> v] : v \in values}

QuestionRecords ==
    {[text |-> "q"]} \cup {[text |-> "q", answerIndex |-> i] : i \in OptionIndices}

SessionDocs ==
    {Merge(Merge(Merge([options |-> o, userLocked |-> TRUE], sel), q), lock) :
        o \in OptionLists,
        sel \in Optional("selected", OptionIndices),
        q \in Optional("question", QuestionRecords),
        lock \in Optional("adminLocked", BOOLEAN)}

\* Another client sets the document of the live session.
ExternalSessionWrite(d) ==
    /\ nExternal < MaxExternal
    /\ d # liveDoc
    /\ nExternal' = nExternal + 1
    /\ liveDoc' = d
    /\ UNCHANGED <<envVars, effectVars, gateState, rowState, subVars, opVars, countVars,
                   chatVars, liveSession, lockSaving, lockError, lockOps, configVars,
                   now, nSends, nLocks, nConfigs>>

\* The colours of the option boxes.
White == "#fff"
Pending == "#FFC400"
Green == "#4CAF50"
Red == "#F44336"

\* One element of liveSession.options.map((opt, idx) => ...).
RenderOption(session, opt, idx) ==
    LET isSelected == HasField(session, "selected") /\ session.selected = idx
        isCorrect == /\ HasField(session, "question")
                     /\ HasField(session.question, "answerIndex")
                     /\ session.question.answerIndex = idx
        isHidden == opt = ""
    IN [key |-> idx,
        backgroundColor |->
            IF isSelected
              THEN IF Truthy(session, "adminLocked")
                     THEN IF isCorrect THEN Green ELSE Red
                     ELSE Pending
              ELSE White,
        opacityReduced |-> isHidden,
        text |-> IF isHidden THEN "(Hidden by 50:50)" ELSE opt]

\* A rendering that leaves the removed options out.
RenderVisibleOptions(session) ==
    IF HasField(session, "options") /\ Len(session.options) > 0
      THEN LET all == [k \in 1 .. Len(session.options) |->
                          RenderOption(session, session.options[k], k - 1)]
           IN SelectSeq(all, LAMBDA r : ~r.opacityReduced)
      ELSE <<>>

\* The option boxes of the session block.
RenderOptions(session) ==
    IF HasField(session, "options") /\ Len(session.options) > 0
      THEN [k \in 1 .. Len(session.options) |->
               RenderOption(session, session.options[k], k - 1)]
      ELSE <<>>

(***************************************************************************)
(* The global config.  An instant is held as the wall-clock reading it has *)
(* in the browser's zone (year, month, day, hour, minute), which is what   *)
(* the Date getters return.  In the zone with daylight saving the clocks   *)
(* go from 02:00 to 03:00 on 2025-03-09, so no instant reads 02:xx there.  *)
(***************************************************************************)
\* An invalid Date: its time value is NaN.
NaN == [invalid |-> TRUE]

Zones == {"fixed", "dst"}

\* What is typed into the config input: nothing, minute-precision
\* local-time strings, and a string that is no date.
ConfigInputs ==
    {"", "2025-01-01T10:30", "2025-03-09T02:30", "0999-01-01T10:30", "soon"}

LocalTimeInputs == {"2025-01-01T10:30", "2025-03-09T02:30", "0999-01-01T10:30"}

\* The date-time fields the Date constructor reads from a string.
ParseFields(str) ==
    CASE str = "2025-01-01T10:30" -> [y |-> 2025, mo |-> 1, d |-> 1, h |-> 10, mi |-> 30]
      [] str = "2025-03-09T02:30" -> [y |-> 2025, mo |-> 3, d |-> 9, h |-> 2, mi |-> 30]
      [] str = "0999-01-01T10:30" -> [y |-> 999, mo |-> 1, d |-> 1, h |-> 10, mi |-> 30]
      [] OTHER -> NaN

\* A wall-clock reading that the zone skips.
InGap(zone, f) == zone = "dst" /\ f.y = 2025 /\ f.mo = 3 /\ f.d = 9 /\ f.h = 2

\* new Date(str): a string without offset is read as local time; a reading
\* the zone skips denotes the instant one hour later on the clock.
NewDate(str) ==
    LET f == ParseFields(str)
    IN IF f = NaN THEN NaN
       ELSE IF InGap(localZone, f) THEN [f EXCEPT !.h = f.h + 1]
       ELSE f

\* n.toString().padStart(2, "0")
Pad(n) == IF n < 10 THEN "0" \o ToString(n) ELSE ToString(n)

\* `${d.getFullYear()}-${pad(d.getMonth() + 1)}-${pad(d.getDate())}T${pad(d.getHours())}:${pad(d.getMinutes())}`
LocalString(d) ==
    ToString(d.y) \o "-" \o Pad(d.mo) \o "-" \o Pad(d.d) \o "T" \o Pad(d.h) \o ":" \o Pad(d.mi)

\* The values of the stored field: an explicit null, a timestamp (of an
\* instant with no seconds, which Timestamp.fromDate and toDate keep
\* exactly), a string.
NullValue == [kind |-> "null"]
TimestampOf(d) == [kind |-> "timestamp", date |-> d]
StringValue(str) == [kind |-> "string", s |-> str]

\* A save that stores the empty input as a string.
SaveValueKeepingEmpty(str) ==
    IF str # "" /\ NewDate(str) # NaN THEN TimestampOf(NewDate(str)) ELSE StringValue(str)

\* The value saveConfig writes for the input.
SaveValue(str) ==
    IF str = "" THEN NullValue
    ELSE IF NewDate(str) = NaN THEN StringValue(str)
    ELSE TimestampOf(NewDate(str))

\* The display string for a stored string.
LoadString(str) == IF NewDate(str) # NaN THEN LocalString(NewDate(str)) ELSE str

\* A load that shows only what parses.
LoadValueDroppingUnparsed(doc) ==
    IF ~HasField(doc, "timeleftforkbs") \/ doc.timeleftforkbs.kind = "null" THEN ""
    ELSE IF doc.timeleftforkbs.kind = "timestamp" THEN LocalString(doc.timeleftforkbs.date)
    ELSE IF NewDate(doc.timeleftforkbs.s) # NaN THEN LoadString(doc.timeleftforkbs.s)
    ELSE ""

\* The display string loadConfig sets for an existing document.
LoadValue(doc) ==
    IF ~HasField(doc, "timeleftforkbs") \/ doc.timeleftforkbs.kind = "null" THEN ""
    ELSE IF doc.timeleftforkbs.kind = "timestamp" THEN LocalString(doc.timeleftforkbs.date)
    ELSE LoadString(doc.timeleftforkbs.s)

LoadOp == [kind |-> "load"]

\* onChange of the config input.
SetConfigInput(str) ==
    /\ PanelRendered
    /\ str # timeleftforkbs
    /\ timeleftforkbs' = str
    /\ UNCHANGED <<envVars, effectVars, gateState, rowState, subVars, opVars, countVars,
                   chatVars, lockVars, configDoc, configSaving, configError, configOps,
                   lastSaved, localZone, loadFailed, panelCount>>

\* saveConfig up to its await, on a click on Save config.
SaveConfig ==
    /\ PanelRendered
    /\ ~configSaving
    /\ nConfigs < MaxConfigs
    /\ nConfigs' = nConfigs + 1
    /\ configSaving' = TRUE
    /\ configError' = Null
    /\ configOps' = configOps \cup
          {[kind |-> "save", input |-> timeleftforkbs, value |-> SaveValue(timeleftforkbs),
            n |-> nConfigs + 1]}
    /\ UNCHANGED <<envVars, effectVars, gateState, rowState, subVars, opVars, countVars,
                   chatVars, lockVars, configDoc, timeleftforkbs, lastSaved, localZone, loadFailed,
                   now, nSends, nLocks, nExternal>>

\* setDoc(cfgDoc, { timeleftforkbs: value }, { merge: true }) resolves.
SaveConfigOk(op) ==
    /\ op.kind = "save"
    /\ configDoc' = Merge(configDoc, [timeleftforkbs |-> op.value])
    /\ lastSaved' = op.input
    /\ configSaving' = FALSE
    /\ configOps' = configOps \ {op}
    /\ UNCHANGED <<envVars, effectVars, gateState, rowState, subVars, opVars, countVars,
                   chatVars, lockVars, timeleftforkbs, configError, localZone, loadFailed, panelCount>>

\* setDoc rejects: catch, then finally.
SaveConfigFail(op) ==
    /\ op.kind = "save"
    /\ configError' = StoreError
    /\ configSaving' = FALSE
    /\ configOps' = configOps \ {op}
    /\ UNCHANGED <<envVars, effectVars, gateState, rowState, subVars, opVars, countVars,
                   chatVars, lockVars, configDoc, timeleftforkbs, lastSaved, localZone, loadFailed,
                   panelCount>>

\* The getDoc of loadConfig, called once by the mount effect, resolves.
LoadConfigOk(op) ==
    /\ op.kind = "load"
    /\ timeleftforkbs' = IF configDoc # NoDoc THEN LoadValue(configDoc) ELSE timeleftforkbs
    /\ configOps' = configOps \ {op}
    /\ UNCHANGED <<envVars, effectVars, gateState, rowState, subVars, opVars, countVars,
                   chatVars, lockVars, configDoc, configSaving, configError, lastSaved,
                   localZone, loadFailed, panelCount>>

\* The getDoc rejects: the error is logged.
LoadConfigFail(op) ==
    /\ op.kind = "load"
    /\ loadFailed' = TRUE
    /\ configOps' = configOps \ {op}
    /\ UNCHANGED <<envVars, effectVars, gateState, rowState, subVars, opVars, countVars,
                   chatVars, lockVars, configDoc, timeleftforkbs, configSaving, configError,
                   lastSaved, localZone, panelCount>>

(***************************************************************************)
(* Specifications.                                                         *)
(***************************************************************************)
\* One page load without user input: the listener reports the persisted
\* session (or none) and the admin check of that identity runs to its end.
NextCheck ==
    \/ AuthListenerDeliver
    \/ FallbackFires
    \/ Unmount
    \/ \E i \in DOMAIN checks : CheckGetDocOk(i)
    \/ \E i \in DOMAIN checks :
          \E byEmailDoc \in FirstOf(QueryByEmail(login, checks[i].qemail)) :
              CheckByEmailOk(i, byEmailDoc)
    \/ \E i \in DOMAIN checks : CheckBackfillOk(i)
    \/ \E i \in DOMAIN checks : CheckBackfillFail(i)
    \/ \E i \in DOMAIN checks : CheckBootstrapOk(i)
    \/ \E i \in DOMAIN checks : CheckRosterOk(i)
    \/ \E i \in DOMAIN checks : CheckStoreFails(i)

SpecCheck == Init /\ [][NextCheck]_vars

\* A step of an admin check: one of its store calls returns.
CheckStep ==
    \/ \E i \in DOMAIN checks : CheckGetDocOk(i)
    \/ \E i \in DOMAIN checks :
          \E byEmailDoc \in FirstOf(QueryByEmail(login, checks[i].qemail)) :
              CheckByEmailOk(i, byEmailDoc)
    \/ \E i \in DOMAIN checks : CheckBackfillOk(i)
    \/ \E i \in DOMAIN checks : CheckBackfillFail(i)
    \/ \E i \in DOMAIN checks : CheckBootstrapOk(i)
    \/ \E i \in DOMAIN checks : CheckRosterOk(i)
    \/ \E i \in DOMAIN checks : CheckStoreFails(i)

\* The page load when the timer fires after its 1.5 s and every store call
\* of the admin check returns.  The provider may stay silent and the view
\* may be unmounted at any time.
SpecCheckFair == SpecCheck /\ WF_vars(FallbackFires) /\ WF_vars(CheckStep)

\* The session gate: the page load above, with sign-in and sign-out.
Next ==
    \/ NextCheck
    \/ \E cred \in Uids : HandleSignIn(cred)
    \/ \E op \in signInOps : SignInAccepted(op)
    \/ \E op \in signInOps : SignInReturns(op)
    \/ \E op \in signInOps : SignInFails(op)
    \/ HandleSignOut
    \/ \E op \in signOutOps : SignOutAccepted(op)
    \/ \E op \in signOutOps : SignOutReturns(op)
    \/ \E op \in signOutOps : SignOutFails(op)

Spec == Init /\ [][Next]_vars

\* The session gate over one login collection: a record with u2's email
\* that marks admin beside u2's own member record, and no record of the
\* operator, so that every branch of the admin check is taken.
SessionLogin ==
    [r1 |-> RecordDoc(EmailOf("u2"), TRUE), u2 |-> MemberDoc(EmailOf("u2"))]

InitSession ==
    /\ login = SessionLogin
    /\ currentUser \in Uids \cup {Null}
    /\ pendingAuth = <<currentUser>>
    /\ InitComponent
    /\ InitPanel
    /\ EmptyStores
    /\ configOps = {}

SpecSession == InitSession /\ [][Next]_vars

\* An authorized session of u at rest: u is signed in, its admin check has
\* passed, the roster is loaded and both subscriptions are open.
\* InitRoster is the roster of such a session of the operator u1, whose
\* check has passed through its own record (a state Spec reaches).
InitAuthorized(u) ==
    /\ currentUser = u
    /\ pendingAuth = <<>>
    /\ mounted = TRUE
    /\ authResolved = TRUE
    /\ fallbackPending = FALSE
    /\ users = Roster(login)
    /\ loading = FALSE
    /\ error = Null
    /\ authenticating = FALSE
    /\ currentUid = u
    /\ authUser = u
    /\ rowSaving = <<>>
    /\ rowErrorMap = <<>>
    /\ chatSubs = 1
    /\ liveSubs = 1
    /\ subFailed = {}
    /\ checks = <<>>
    /\ signInOps = {}
    /\ signOutOps = {}
    /\ rowSaves = {}
    /\ nAuthClicks = 0
    /\ nToggles = 0
    /\ nSaves = 0

InitRoster ==
    /\ login = [u1 |-> AdminDoc(EmailOf("u1")), u2 |-> MemberDoc(EmailOf("u2"))]
    /\ InitAuthorized("u1")
    /\ InitPanel
    /\ EmptyStores
    /\ configOps = {}

NextRoster ==
    \/ \E k \in DOMAIN users : \E field \in ToggleInputs :
          HandleCheckboxChange(users[k].id, field)
    \/ \E k \in DOMAIN users : SaveUser(users[k])
    \/ \E op \in rowSaves : SaveUserOk(op)
    \/ \E op \in rowSaves : SaveUserFail(op)

SpecRoster == InitRoster /\ [][NextRoster]_vars

\* The roster while another admin session saves rows of the same
\* collection.
NextTwoSessions ==
    \/ NextRoster
    \/ \E id \in Uids : \E set \in OtherFlagSets : OtherSessionSave(OtherRow(id, set))

SpecTwoSessions == InitRoster /\ [][NextTwoSessions]_vars

\* The chat form of an authorized session, of the operator (no display
\* name) or of an admin with a display name, up to the admin's sign-out.
InitChat ==
    /\ login = [u1 |-> AdminDoc(EmailOf("u1")), u2 |-> AdminDoc(EmailOf("u2"))]
    /\ \E u \in Uids : InitAuthorized(u)
    /\ InitPanel
    /\ EmptyStores
    /\ configOps = {}

NextChat ==
    \/ \E text \in ChatInputs : SetChatInput(text)
    \/ SendChatMessage
    \/ \E op \in chatOps : SendChatOk(op)
    \/ \E op \in chatOps : SendChatFail(op)
    \/ Tick
    \/ HandleSignOut
    \/ \E op \in signOutOps : SignOutAccepted(op)
    \/ \E op \in signOutOps : SignOutReturns(op)
    \/ \E op \in signOutOps : SignOutFails(op)
    \/ AuthListenerDeliver

SpecChat == InitChat /\ [][NextChat]_vars

\* The chat list of an authorized session: the admin and other clients
\* write to the collection and the subscription delivers its snapshots.
NextChatFeed ==
    \/ \E text \in ChatInputs : SetChatInput(text)
    \/ SendChatMessage
    \/ \E op \in chatOps : SendChatOk(op)
    \/ \E kind \in Representations : ExternalChatMessage(kind)
    \/ Tick
    \/ ChatSnapshot

SpecChatFeed == InitChat /\ [][NextChatFeed]_vars

\* The live session of an authorized session of the operator: the store
\* holds no session, a round just started, or a round whose answer the
\* player has locked; the first snapshot has not arrived yet.
InitLock ==
    /\ login = [u1 |-> AdminDoc(EmailOf("u1")), u2 |-> MemberDoc(EmailOf("u2"))]
    /\ InitAuthorized("u1")
    /\ InitPanel
    /\ chatStore = <<>>
    /\ configDoc = NoDoc
    /\ lastSaved = Null
    /\ localZone = "fixed"
    /\ loadFailed = FALSE
    /\ configOps = {}
    /\ liveDoc \in {NoDoc, RoundDoc("q1"), Merge(FreshDoc("q1"), [userLocked |-> TRUE])}

NextLock ==
    \/ \E kind \in ExternalKinds : \E q \in Rounds : ExternalSessionUpdate(kind, q)
    \/ LiveSnapshot
    \/ LockAnswer
    \/ \E op \in lockOps : LockWriteOk(op)
    \/ \E op \in lockOps : LockWriteFail(op)

SpecLock == InitLock /\ [][NextLock]_vars

\* The page at rest with nobody signed in: the listener has reported no
\* session and the timer has passed (a state Spec reaches).
InitSignedOut ==
    /\ currentUser = Null
    /\ pendingAuth = <<>>
    /\ mounted = TRUE
    /\ authResolved = TRUE
    /\ fallbackPending = FALSE
    /\ users = <<>>
    /\ loading = FALSE
    /\ error = Null
    /\ authenticating = FALSE
    /\ currentUid = Null
    /\ authUser = Null
    /\ rowSaving = <<>>
    /\ rowErrorMap = <<>>
    /\ chatSubs = 0
    /\ liveSubs = 0
    /\ subFailed = {}
    /\ checks = <<>>
    /\ signInOps = {}
    /\ signOutOps = {}
    /\ rowSaves = {}
    /\ nAuthClicks = 0
    /\ nToggles = 0
    /\ nSaves = 0

\* The one-shot controls of the page together: the sign-in at the login
\* form (of the operator, or of a member, whose check is denied), then the
\* saves of the rows and of the config and the lock of a live session that
\* awaits it.
InitControls ==
    /\ login = [u1 |-> AdminDoc(EmailOf("u1")), u2 |-> MemberDoc(EmailOf("u2"))]
    /\ InitSignedOut
    /\ InitPanel
    /\ chatStore = <<>>
    /\ configDoc = NoDoc
    /\ lastSaved = Null
    /\ localZone = "fixed"
    /\ loadFailed = FALSE
    /\ configOps = {}
    /\ liveDoc = Merge(FreshDoc("q1"), [userLocked |-> TRUE])

NextControls ==
    \/ AuthListenerDeliver
    \/ \E i \in DOMAIN checks : CheckGetDocOk(i)
    \/ \E i \in DOMAIN checks :
          \E byEmailDoc \in FirstOf(QueryByEmail(login, checks[i].qemail)) :
              CheckByEmailOk(i, byEmailDoc)
    \/ \E i \in DOMAIN checks : CheckRosterOk(i)
    \/ \E i \in DOMAIN checks : CheckStoreFails(i)
    \/ \E cred \in Uids : HandleSignIn(cred)
    \/ \E op \in signInOps : SignInAccepted(op)
    \/ \E op \in signInOps : SignInReturns(op)
    \/ \E op \in signInOps : SignInFails(op)
    \/ \E k \in DOMAIN users : SaveUser(users[k])
    \/ \E op \in rowSaves : SaveUserOk(op)
    \/ \E op \in rowSaves : SaveUserFail(op)
    \/ SaveConfig
    \/ \E op \in configOps : SaveConfigOk(op)
    \/ \E op \in configOps : SaveConfigFail(op)
    \/ LiveSnapshot
    \/ LockAnswer
    \/ \E op \in lockOps : LockWriteOk(op)
    \/ \E op \in lockOps : LockWriteFail(op)

SpecControls == InitControls /\ [][NextControls]_vars

\* The same with the chat form, where one message text is typed, for the
\* sign-in of the operator, whose admin check passes by its own record.
NextOneShot ==
    \/ AuthListenerDeliver
    \/ \E i \in DOMAIN checks : CheckGetDocOk(i)
    \/ \E i \in DOMAIN checks : CheckRosterOk(i)
    \/ \E cred \in {"u1"} : HandleSignIn(cred)
    \/ \E op \in signInOps : SignInAccepted(op)
    \/ \E op \in signInOps : SignInReturns(op)
    \/ \E op \in signInOps : SignInFails(op)
    \/ \E k \in DOMAIN users : SaveUser(users[k])
    \/ \E op \in rowSaves : SaveUserOk(op)
    \/ \E op \in rowSaves : SaveUserFail(op)
    \/ SaveConfig
    \/ \E op \in configOps : SaveConfigOk(op)
    \/ \E op \in configOps : SaveConfigFail(op)
    \/ LiveSnapshot
    \/ LockAnswer
    \/ \E op \in lockOps : LockWriteOk(op)
    \/ \E op \in lockOps : LockWriteFail(op)
    \/ \E text \in {"hi"} : SetChatInput(text)
    \/ SendChatMessage
    \/ \E op \in chatOps : SendChatOk(op)
    \/ \E op \in chatOps : SendChatFail(op)

SpecOneShot == InitControls /\ [][NextOneShot]_vars

\* The two realtime channels of an authorized session: other clients
\* write, snapshots are delivered, and a listener may fail.
InitChannels ==
    /\ login = [u1 |-> AdminDoc(EmailOf("u1")), u2 |-> MemberDoc(EmailOf("u2"))]
    /\ InitAuthorized("u1")
    /\ InitPanel
    /\ EmptyStores
    /\ configOps = {}

NextChannels ==
    \/ \E kind \in Representations : ExternalChatMessage(kind)
    \/ \E kind \in ExternalKinds : \E q \in Rounds : ExternalSessionUpdate(kind, q)
    \/ ChatSnapshot
    \/ LiveSnapshot
    \/ ChatSubscriptionError
    \/ LiveSubscriptionError

SpecChannels == InitChannels /\ [][NextChannels]_vars

\* The session block of an authorized session while another client
\* rewrites the document.
NextOptions ==
    \/ \E d \in SessionDocs : ExternalSessionWrite(d)
    \/ LiveSnapshot

SpecOptions == InitChannels /\ [][NextOptions]_vars

\* The config editor of an authorized session of the operator.  The view
\* has just been opened and loadConfig is still waiting for the document.
\* config/global is missing, or lacks the field, or holds what an earlier
\* visit saved for one of the inputs in the same zone.
OtherConfig == [kbsenabled |-> TRUE]

InitConfig ==
    /\ login = [u1 |-> AdminDoc(EmailOf("u1")), u2 |-> MemberDoc(EmailOf("u2"))]
    /\ InitAuthorized("u1")
    /\ InitPanel
    /\ chatStore = <<>>
    /\ liveDoc = NoDoc
    /\ localZone \in Zones
    /\ loadFailed = FALSE
    /\ configOps = {LoadOp}
    /\ \/ configDoc \in {NoDoc, OtherConfig} /\ lastSaved = Null
       \/ \E str \in ConfigInputs :
             /\ configDoc = Merge(OtherConfig, [timeleftforkbs |-> SaveValue(str)])
             /\ lastSaved = str

NextConfig ==
    \/ \E str \in ConfigInputs : SetConfigInput(str)
    \/ SaveConfig
    \/ \E op \in configOps : SaveConfigOk(op)
    \/ \E op \in configOps : SaveConfigFail(op)
    \/ \E op \in configOps : LoadConfigOk(op)
    \/ \E op \in configOps : LoadConfigFail(op)

SpecConfig == InitConfig /\ [][NextConfig]_vars

(***************************************************************************)
(* The session gate (4.1) and the subscriptions' lifetime.                 *)
(***************************************************************************)
\* setCurrentUid(uid) is the admin check's approval of uid.
Authorized(u) == IsUser(u) /\ currentUid = u

\* C1: whenever the admin panel is rendered, the signed-in identity has
\* already passed the admin authorization check.
C1_PanelOnlyAfterAdminCheck == PanelRendered => Authorized(authUser)

\* The checked identity matches one of the three admin paths, as the check
\* found the store: login/{uid} marks admin, or a record carrying the
\* identity's email marks admin, or the identity's email is the operator's.
MatchesAnAdminPath(c) ==
    \/ c.sawUidAdmin
    \/ \E d \in c.ownMatches : IsAdmin(d)
    \/ EmailOf(c.uid) = OperatorEmail

\* C2: an identity that matches none of the three admin paths is denied:
\* its admin check never reaches setCurrentUid and the roster read.
C2_NoPathMeansDenied ==
    \A i \in DOMAIN checks : checks[i].pc = "roster" => MatchesAnAdminPath(checks[i])

\* C3: the chat and live-session subscriptions are open only while the
\* signed-in identity is authorized as admin.
C3_SubscriptionsOnlyWhileAuthorized ==
    (chatSubs > 0 \/ liveSubs > 0) => Authorized(authUser)

\* The check runs for the operator's identity and found neither login/{uid}
\* nor a record with the operator's email marking admin.
OperatorWithoutRecord(c) ==
    /\ EmailOf(c.uid) = OperatorEmail
    /\ ~c.sawUidAdmin
    /\ \A d \in c.ownMatches : ~IsAdmin(d)

\* C4: for the operator's identity without an admin record, the check
\* writes login/{uid} with isAdmin: true, and sets the identity as
\* authorized and reads the roster only after that write has succeeded.
C4_OperatorBootstrapBeforeAuthorize ==
    \A i \in DOMAIN checks :
        (checks[i].pc = "roster" /\ OperatorWithoutRecord(checks[i]))
            => /\ checks[i].writes = <<[target |-> checks[i].uid, via |-> "bootstrap"]>>
               /\ checks[i].wrote
               /\ checks[i].uid \in DOMAIN login
               /\ IsAdmin(login[checks[i].uid])

\* The check has gone past the email query and was let through by it.
PassedByEmail(c) == c.writes # <<>> /\ c.writes[1].via = "backfill"

\* C5: when login/{uid} does not mark admin, the email path authorizes if
\* and only if exactly one record matching the email marks admin.
C5_EmailPathIffExactlyOneAdmin ==
    \A i \in DOMAIN checks :
        (checks[i].pc \in {"backfill", "bootstrap"} \/
         (checks[i].pc = "roster" /\ ~checks[i].sawUidAdmin))
            => (PassedByEmail(checks[i])
                  <=> Cardinality({d \in checks[i].matches : IsAdmin(d)}) = 1)

\* The step is one of check i: its record changed or it returned.
CheckMoved(i) ==
    \/ Len(checks') = Len(checks) /\ checks'[i] # checks[i]
    \/ checks' = RemoveAt(checks, i)

\* C6: when the backfill write of the email path fails, the failure is
\* swallowed: the error slot is left as it was, the identity is authorized
\* (currentUid set) and the roster read is issued.
C6_BackfillFailureSwallowed ==
    [][\A i \in DOMAIN checks :
          (checks[i].pc = "backfill" /\ CheckMoved(i) /\ login' = login)
              => /\ error' = error
                 /\ currentUid' = checks[i].uid
                 /\ Len(checks') = Len(checks)
                 /\ checks'[i].pc = "roster"]_vars

C6_Witness ==
    \E i \in DOMAIN checks :
        /\ checks[i].pc = "roster"
        /\ PassedByEmail(checks[i])
        /\ ~checks[i].wrote
        /\ error = Null
        /\ currentUid = checks[i].uid

\* What one evaluation has written so far: at most one write, to
\* login/{uid}, issued in the backfill or the operator step; none before
\* those steps and none on the path through the identity's own record.
WritesOfOneCheck(c) ==
    /\ Len(c.writes) <= 1
    /\ \A k \in DOMAIN c.writes :
          /\ c.writes[k].target = c.uid
          /\ c.writes[k].via \in {"backfill", "bootstrap"}
    /\ c.pc \in {"getDoc", "byEmail"} => c.writes = <<>>
    /\ c.pc \in {"backfill", "bootstrap"} => c.writes = <<[target |-> c.uid, via |-> c.pc]>>
    /\ c.sawUidAdmin => c.writes = <<>>
    /\ c.wrote => c.writes # <<>>

\* The store changes only in a step of a check that is waiting for its
\* backfill or operator write, and only in that check's login/{uid}.
StoreChangesOnlyByTheWrite ==
    login' # login =>
        \E i \in DOMAIN checks :
            /\ checks[i].pc \in {"backfill", "bootstrap"}
            /\ CheckMoved(i)
            /\ DOMAIN login' = DOMAIN login \cup {checks[i].uid}
            /\ \A d \in DOMAIN login \ {checks[i].uid} : login'[d] = login[d]

\* C7: one evaluation of the admin check performs at most one store write,
\* to login/{uid} of the checked identity, in the backfill or the operator
\* step only; an identity authorized by its own record and a denied
\* identity cause no write.
C7_AtMostOneWritePerCheck ==
    /\ [](\A i \in DOMAIN checks : WritesOfOneCheck(checks[i]))
    /\ [][StoreChangesOnlyByTheWrite]_vars

C7_Witness ==
    \E i \in DOMAIN checks :
        /\ checks[i].pc = "roster"
        /\ checks[i].wrote
        /\ Len(checks[i].writes) = 1
        /\ checks[i].uid \in DOMAIN login
        /\ IsAdmin(login[checks[i].uid])

(***************************************************************************)
(* The roster (4.2).                                                       *)
(***************************************************************************)
\* The store after the update of the save op: the six flags of login/{id}
\* hold the values of the saved row, nothing else differs.
StoredAfterSave(op) ==
    LET id == op.u.id IN
    /\ DOMAIN login' = DOMAIN login
    /\ \A d \in DOMAIN login \ {id} : login'[d] = login[d]
    /\ DOMAIN login'[id] = DOMAIN login[id] \cup ToggleFields
    /\ \A f \in ToggleFields : login'[id][f] = Truthy(op.u, f)
    /\ \A f \in DOMAIN login[id] \ ToggleFields : login'[id][f] = login[id][f]

\* C8: saving a row issues one update to login/{id} of that row, with the
\* six toggle keys and the row's local boolean values; every other field
\* of that document and every other document is unchanged.
C8_SaveWritesSixFlagsOfOneRow ==
    [][/\ \A op \in rowSaves' \ rowSaves : \E k \in DOMAIN users : users[k] = op.u
       /\ \A op \in rowSaves \ rowSaves' :
             (RowErrorOf(op.u.id))' = Null => StoredAfterSave(op)
       /\ login' # login =>
             /\ Cardinality(rowSaves \ rowSaves') = 1
             /\ \A op \in rowSaves \ rowSaves' : (RowErrorOf(op.u.id))' = Null]_vars

C8_Witness ==
    /\ rowSaves = {}
    /\ RowErrorOf("u2") = Null
    /\ Truthy(login["u2"], "bhajanquiz")
    /\ ~Truthy(login["u2"], "postapproval")
    /\ login["u2"].name = "Member"
    /\ login["u1"] = AdminDoc(EmailOf("u1"))

SaveInFlight(id) == \E op \in rowSaves : op.u.id = id

\* A step that starts or completes a save leaves the entries of every
\* other row as they were.
OtherRowsKept ==
    \A op \in (rowSaves \ rowSaves') \cup (rowSaves' \ rowSaves) :
        \A id \in DocIds \ {op.u.id} :
            /\ (RowSavingOf(id))' = RowSavingOf(id)
            /\ (RowErrorOf(id))' = RowErrorOf(id)

\* C9: saving and error state are independent per row: a row's in-flight
\* flag is set exactly while a save of that row is in flight, its error is
\* shown only when no save of it is in flight, and no step of one row's
\* save changes another row's entries.
C9_RowStateIndependent ==
    /\ [](\A id \in DocIds :
            /\ RowSavingOf(id) <=> SaveInFlight(id)
            /\ RowErrorOf(id) # Null => ~SaveInFlight(id))
    /\ [][OtherRowsKept]_vars

C9_Witness ==
    \E a \in rowSaves : \E id \in DocIds \ {a.u.id} :
        /\ a.n = 1
        /\ nSaves = 2
        /\ RowSavingOf(a.u.id)
        /\ RowErrorOf(id) = StoreError
        /\ ~RowSavingOf(id)

\* C10: a failed row save stores its message in that row's error entry
\* only, returns the row's in-flight flag to false, and leaves the local
\* toggle values of all rows as they were.
C10_FailedSaveKeepsLocalToggles ==
    [][\A op \in rowSaves \ rowSaves' :
          (RowErrorOf(op.u.id))' # Null
              => /\ users' = users
                 /\ (RowErrorOf(op.u.id))' = StoreError
                 /\ ~(RowSavingOf(op.u.id))'
                 /\ \A id \in DocIds \ {op.u.id} :
                       (RowErrorOf(id))' = RowErrorOf(id)]_vars

C10_Witness ==
    \E k \in DOMAIN users :
        /\ RowErrorOf(users[k].id) = StoreError
        /\ ~RowSavingOf(users[k].id)
        /\ rowSaves = {}
        /\ SixFlags(users[k]) # SixFlags(login[users[k].id])

(***************************************************************************)
(* The chat.                                                               *)
(***************************************************************************)
\* C14: the rendered chat message list is in ascending createdAt order,
\* whichever representation each message's createdAt has (stated here
\* without strictness: no message is rendered before an earlier one).
C14_ChatRenderedAscending ==
    \A i, j \in DOMAIN chatMessages :
        i < j => getTimestampValue(chatMessages[i].createdAt)
                    <= getTimestampValue(chatMessages[j].createdAt)

\* A send is started only by a submit that the guard lets through.
SendStartsOnlyWhenAccepted ==
    chatOps' # chatOps /\ chatOps \subseteq chatOps'
        => /\ ~SendRejected
           /\ chatOps = {}
           /\ Cardinality(chatOps') = 1

\* The collection grows only by the message of a send that was accepted.
AppendOnlyByAcceptedSend ==
    chatStore' # chatStore =>
        \E op \in chatOps \ chatOps' : chatStore' = Append(chatStore, op.doc)

NameOrEmail(u) == IF DisplayNameOf(u) # Null THEN DisplayNameOf(u) ELSE EmailOf(u)

\* C16: an accepted chat send appends one document with the trimmed input
\* as text, senderRole "admin", the signed-in identity's display name or
\* else its email as sender, and the current instant as createdAt; no
\* existing message is edited or deleted.
C16_SentMessageFields ==
    [][/\ \A op \in chatOps' \ chatOps :
             /\ IsUser(authUser)
             /\ op.doc = [text |-> Trim(chatInput), sender |-> NameOrEmail(authUser),
                          senderRole |-> "admin",
                          createdAt |-> [kind |-> "number", n |-> DateNow]]
       /\ \A op \in chatOps \ chatOps' :
             chatStore' \in {chatStore, Append(chatStore, op.doc)}]_vars

(***************************************************************************)
(* The live session's lock.                                                *)
(***************************************************************************)
\* The store after the lock write: adminLocked is true, every other field
\* of the document is as before.
StoredAfterLock ==
    /\ DOMAIN liveDoc' = DOMAIN liveDoc \cup {"adminLocked"}
    /\ liveDoc'.adminLocked = TRUE
    /\ \A f \in DOMAIN liveDoc \ {"adminLocked"} : liveDoc'[f] = liveDoc[f]

\* C11: the lock action performs no write when the observed session has
\* userLocked false or adminLocked true; otherwise it performs one update
\* whose only field is adminLocked: true, which leaves every other field of
\* the document unchanged.
C11_LockWritesOnlyAdminLocked ==
    [][/\ lockOps' # lockOps /\ lockOps \subseteq lockOps' =>
             /\ Truthy(liveSession, "userLocked")
             /\ ~Truthy(liveSession, "adminLocked")
             /\ Cardinality(lockOps' \ lockOps) = 1
             /\ \A op \in lockOps' \ lockOps : op.payload = [adminLocked |-> TRUE]
       /\ \A op \in lockOps \ lockOps' :
             liveDoc' # liveDoc => liveDoc # NoDoc /\ StoredAfterLock]_vars

C11_Witness ==
    /\ nLocks = 1
    /\ lockOps = {}
    /\ lockError = Null
    /\ liveDoc = [phase |-> "question", question |-> "q1", selected |-> 0,
                  userLocked |-> TRUE, adminLocked |-> TRUE]

\* C12: locking is one-way: no write of this system takes adminLocked from
\* true to another value, no lock write starts while the observed session
\* has adminLocked true, and the observed adminLocked leaves true only when
\* the stored document no longer has it true.
C12_LockIsOneWay ==
    [][/\ Truthy(liveDoc, "adminLocked") /\ ~Truthy(liveDoc', "adminLocked")
             => lockOps' = lockOps
       /\ Truthy(liveSession, "adminLocked") => lockOps' \subseteq lockOps
       /\ Truthy(liveSession, "adminLocked") /\ ~Truthy(liveSession', "adminLocked")
             => ~Truthy(liveDoc, "adminLocked")]_vars

C12_Witness ==
    /\ Truthy(liveSession, "adminLocked")
    /\ Truthy(liveSession, "userLocked")
    /\ LockButtonRendered
    /\ ~lockSaving
    /\ nLocks = 1
    /\ liveDoc = RoundDoc("q2")

\* C13: no write of this system brings the stored document to
\* adminLocked true while its stored userLocked is false.
C13_LockOnlyFromAwaitingLock ==
    [][\A op \in lockOps \ lockOps' :
          liveDoc' # liveDoc => Truthy(liveDoc', "userLocked")]_vars

(***************************************************************************)
(* The global config.                                                      *)
(***************************************************************************)
\* loadConfig's read completes in this step and has not failed.
LoadCompletes == LoadOp \in configOps /\ LoadOp \notin configOps' /\ ~loadFailed'

\* C17: for every minute-precision local-time string, saving it and then
\* loading the config yields the same display string.
C17_ConfigRoundTrip ==
    [][(LoadCompletes /\ lastSaved \in LocalTimeInputs /\ HasField(configDoc, "timeleftforkbs"))
          => timeleftforkbs' = lastSaved]_vars

\* C18: saving the empty input merges an explicit null into config/global
\* and leaves its other fields as they were; loading a stored null or a
\* document without the field yields the empty display string.
C18_EmptyInputIsStoredNull ==
    [][/\ \A op \in configOps \ configOps' :
             (op.kind = "save" /\ op.input = "" /\ configDoc' # configDoc)
                 => /\ DOMAIN configDoc' = DOMAIN configDoc \cup {"timeleftforkbs"}
                    /\ configDoc'.timeleftforkbs = [kind |-> "null"]
                    /\ \A f \in DOMAIN configDoc \ {"timeleftforkbs"} :
                          configDoc'[f] = configDoc[f]
       /\ \A op \in configOps' \ configOps :
             (op.kind = "save" /\ op.input = "") => op.value = [kind |-> "null"]
       /\ (LoadCompletes /\ configDoc # NoDoc)
             => (timeleftforkbs' = ""
                   <=> (~HasField(configDoc, "timeleftforkbs")
                           \/ configDoc.timeleftforkbs = [kind |-> "null"]))]_vars

C18_Witness ==
    /\ lastSaved = ""
    /\ nConfigs > 0
    /\ configOps = {}
    /\ configDoc = [kbsenabled |-> TRUE, timeleftforkbs |-> [kind |-> "null"]]
    /\ timeleftforkbs = ""
    /\ configError = Null

\* C19: a non-empty input that does not parse as an instant is stored as
\* the raw string, and a stored string that does not parse is loaded as it
\* is: saving and then loading such a string returns it.
C19_UnparseableInputKept ==
    [][/\ \A op \in configOps' \ configOps :
             (op.kind = "save" /\ op.input # "" /\ ParseFields(op.input) = NaN)
                 => op.value = [kind |-> "string", s |-> op.input]
       /\ \A op \in configOps \ configOps' :
             (op.kind = "save" /\ configDoc' # configDoc)
                 => configDoc'.timeleftforkbs = op.value
       /\ (LoadCompletes /\ HasField(configDoc, "timeleftforkbs")
             /\ configDoc.timeleftforkbs.kind = "string"
             /\ ParseFields(configDoc.timeleftforkbs.s) = NaN)
             => timeleftforkbs' = configDoc.timeleftforkbs.s]_vars

C19_Witness ==
    /\ lastSaved = "soon"
    /\ nConfigs > 0
    /\ configOps = {}
    /\ configDoc = [kbsenabled |-> TRUE, timeleftforkbs |-> [kind |-> "string", s |-> "soon"]]
    /\ timeleftforkbs = "soon"

(***************************************************************************)
(* The lifetime of the realtime subscriptions.                             *)
(***************************************************************************)
\* At most one chat and one live-session listener are open, and one is open
\* exactly while the view is mounted and the identity is a user.
SubscriptionsFollowIdentity ==
    /\ chatSubs \in {0, 1}
    /\ liveSubs \in {0, 1}
    /\ chatSubs = (IF mounted THEN Opened(authUser) ELSE 0)
    /\ liveSubs = (IF mounted THEN Opened(authUser) ELSE 0)

\* A step cancels at most one listener of each kind, and only a step in
\* which the identity becomes unauthenticated or the view unmounts.
CancelledAtSignOutOrUnmount ==
    /\ chatSubs' < chatSubs
          => chatSubs' = chatSubs - 1 /\ (~mounted' \/ ~IsUser(authUser'))
    /\ liveSubs' < liveSubs
          => liveSubs' = liveSubs - 1 /\ (~mounted' \/ ~IsUser(authUser'))

\* C20: every opened chat or live-session subscription is cancelled exactly
\* once, when the identity becomes unauthenticated or the view unmounts; at
\* most one of each is open in every state, and none is open while the
\* identity is null or unresolved or after the unmount.
C20_SubscriptionsCancelledOnce ==
    []SubscriptionsFollowIdentity /\ [][CancelledAtSignOutOrUnmount]_vars

\* The admin has signed out of the panel and the listener has been told:
\* the two subscriptions of the session are cancelled.
C20_Witness ==
    /\ mounted
    /\ authUser = Null
    /\ chatSubs = 0
    /\ liveSubs = 0
    /\ \E op \in signOutOps : op.pc = "resolved"

(***************************************************************************)
(* The end of the initial loading state.                                   *)
(***************************************************************************)
\* The timer fires in this step (the unmount clears it instead).
TimerFires == fallbackPending /\ ~fallbackPending' /\ mounted'

\* What the render shows in the next state.
LoginFormShownNext == mounted' /\ ~loading' /\ authUser' = Null

FallbackForcesLoginOnlyIfUnresolved ==
    TimerFires =>
        IF ~authResolved
          THEN authUser' = Null /\ LoginFormShownNext
          ELSE UNCHANGED <<envVars, mounted, authResolved, gateState, rowState, subVars,
                           opVars, countVars, panelVars>>

\* C21: when the timer fires before the provider has delivered anything,
\* the identity is forced to null and the login form is shown; when the
\* provider resolved first the timer changes nothing; and when every store
\* call of the admin check returns, loading eventually becomes false (as
\* long as the view stays mounted).
C21_LoadingEnds ==
    [][FallbackForcesLoginOnlyIfUnresolved]_vars /\ <>(~mounted \/ ~loading)

\* The timer has forced the login form while the provider was silent.
C21_Witness ==
    /\ mounted
    /\ ~authResolved
    /\ ~fallbackPending
    /\ authUser = Null
    /\ LoginFormShown

(***************************************************************************)
(* The one-shot controls.                                                  *)
(***************************************************************************)
SignInsInFlight == signInOps
ConfigSavesInFlight == {op \in configOps : op.kind = "save"}
LocksInFlight == lockOps
RowSavesInFlight(id) == {op \in rowSaves : op.u.id = id}

\* C22: of sign-in, config save, lock and the save of one given row, at
\* most one operation started from the control is in flight at any time,
\* and while one is in flight the flag that disables the control is set.
C22_NoDuplicateSubmission ==
    /\ Cardinality(SignInsInFlight) <= 1
    /\ SignInsInFlight # {} => authenticating
    /\ Cardinality(ConfigSavesInFlight) <= 1
    /\ ConfigSavesInFlight # {} => configSaving
    /\ Cardinality(LocksInFlight) <= 1
    /\ LocksInFlight # {} => lockSaving
    /\ \A id \in DocIds :
          /\ Cardinality(RowSavesInFlight(id)) <= 1
          /\ RowSavesInFlight(id) # {} => RowSavingOf(id)

\* A second save of a row is in flight after the first has completed,
\* beside a save of the other row, a config save and a lock.
C22_Witness ==
    /\ \E op \in rowSaves : op.n = 2 /\ op.u.id = "u1"
    /\ RowSavesInFlight("u2") # {}
    /\ ConfigSavesInFlight # {}
    /\ LocksInFlight # {}

\* The error slots of the page: the global error, the rows' errors, the
\* config error, the lock error and the chat error.
RowErrorsKeptExcept(id) ==
    \A other \in DocIds \ {id} : RowErrorOf(other)' = RowErrorOf(other)

\* An operation that completes leaves its in-flight flag false.
CompletionClearsFlag ==
    /\ signInOps' # signInOps /\ signInOps' \subseteq signInOps => ~authenticating'
    /\ \A op \in rowSaves \ rowSaves' : ~RowSavingOf(op.u.id)'
    /\ \A op \in ConfigSavesInFlight \ configOps' : ~configSaving'
    /\ \A op \in lockOps \ lockOps' : ~lockSaving'
    /\ \A op \in chatOps \ chatOps' : ~chatSending'

\* A failure puts a message into the operation's own slot and leaves the
\* other slots as they were.
FailureIsScoped ==
    /\ (\E op \in signInOps : SignInFails(op))
          => /\ error' # Null
             /\ UNCHANGED <<rowErrorMap, configError, lockError, chatError>>
    /\ \A op \in rowSaves :
          SaveUserFail(op)
          => /\ RowErrorOf(op.u.id)' # Null
             /\ RowErrorsKeptExcept(op.u.id)
             /\ UNCHANGED <<error, configError, lockError, chatError>>
    /\ (\E op \in configOps : SaveConfigFail(op))
          => /\ configError' # Null
             /\ UNCHANGED <<error, rowErrorMap, lockError, chatError>>
    /\ (\E op \in lockOps : LockWriteFail(op))
          => /\ lockError' # Null
             /\ UNCHANGED <<error, rowErrorMap, configError, chatError>>
    /\ (\E op \in chatOps : SendChatFail(op))
          => /\ chatError' # Null
             /\ UNCHANGED <<error, rowErrorMap, configError, lockError>>

\* C23: a sign-in, row save, config save, lock or chat send that
\* completes, by success or by failure, leaves its in-flight flag false;
\* a failure leaves a message in the operation's own error slot and
\* changes no other error slot.
C23_CompletionReenablesAndScopesError ==
    [][CompletionClearsFlag /\ FailureIsScoped]_vars

\* Every kind of operation has failed once (the first sign-in before the
\* second was accepted) and its control is idle again.
C23_Witness ==
    /\ nAuthClicks = 2 /\ ~authenticating /\ signInOps = {}
    /\ lockError # Null /\ ~lockSaving /\ lockOps = {}
    /\ configError # Null /\ ~configSaving /\ configOps = {}
    /\ chatError # Null /\ ~chatSending /\ chatOps = {}
    /\ RowErrorOf("u2") # Null /\ ~RowSavingOf("u2") /\ rowSaves = {}

\* loadConfig's read fails in this step.
LoadFails == LoadOp \in configOps /\ ~loadFailed /\ loadFailed'

\* C24: after loadConfig fails, configError holds a message, shown next
\* to the config control.
C24_LoadFailureSetsConfigError ==
    [][LoadFails => configError' # Null]_vars

(***************************************************************************)
(* Failures of the realtime channels.                                      *)
(***************************************************************************)
ChatListenerFails == "chat" \notin subFailed /\ "chat" \in subFailed'
LiveListenerFails == "live" \notin subFailed /\ "live" \in subFailed'

\* C25: after the failure callback of a channel has run, the error slot
\* shown with that channel (chatError for the chat, lockError for the live
\* session) holds a message, which is not the provider's error text.
C25_SubscriptionFailureSurfaced ==
    [][/\ ChatListenerFails => chatError' \notin {Null, StoreError}
       /\ LiveListenerFails => lockError' \notin {Null, StoreError}]_vars

(***************************************************************************)
(* What the system writes into the login collection.                       *)
(***************************************************************************)
\* A per-row save of record id completes in this step.
RowSaveCompletes(id) == \E op \in rowSaves \ rowSaves' : op.u.id = id

\* The toggle flags stored in a record, those it lacks left out.
StoredFlags(d) == [f \in ToggleFields \cap DOMAIN d |-> d[f]]

\* C26: no step deletes a login record or one of its fields, and the
\* toggle flags stored in an existing record change only in a step that
\* completes a per-row save of that record; the write of an admin check
\* (email backfill, operator bootstrap) leaves them as they are.
C26_FlagsChangeOnlyByRowSave ==
    [][\A id \in DOMAIN login :
          /\ id \in DOMAIN login'
          /\ DOMAIN login[id] \subseteq DOMAIN login'[id]
          /\ StoredFlags(login'[id]) # StoredFlags(login[id]) => RowSaveCompletes(id)]_vars

(***************************************************************************)
(* Two admin sessions saving the same row.                                 *)
(***************************************************************************)
\* The six flags stored in login/{id} after the step, absent read as false.
SixStoredNext(id) == [f \in ToggleFields |-> Truthy(login'[id], f)]

\* C27: whichever session's save of a row the store applies, the six
\* stored flags of the row afterwards are, all six together, the flags of
\* the row that save was called with; so after two concurrent saves they
\* are those of the save applied last and never a mixture.
C27_LastWriteWinsOnAllSixFlags ==
    [][/\ \A op \in rowSaves :
             SaveUserOk(op) => SixStoredNext(op.u.id) = SixFlags(op.u)
       /\ \A id \in Uids : \A set \in OtherFlagSets :
             OtherSessionSave(OtherRow(id, set))
                 => SixStoredNext(id) = [f \in ToggleFields |-> f \in set]]_vars

\* A save of row u2 by this session was applied, and the save of the other
\* session, with all six flags set, was applied after it.
C27_Witness ==
    /\ "u2" \in DOMAIN rowSaving
    /\ ~RowSavingOf("u2")
    /\ RowErrorOf("u2") = Null
    /\ rowSaves = {}
    /\ nExternal > 0
    /\ \A f \in ToggleFields : Truthy(login["u2"], f)

(***************************************************************************)
(* The roster after its load.                                              *)
(***************************************************************************)
\* The boolean flag fields of a user record: the six toggles and isAdmin.
FlagFields == ToggleFields \cup {"isAdmin"}

\* A roster load succeeds in this step, in a mounted view.
RosterLoads == mounted /\ \E i \in DOMAIN checks : CheckRosterOk(i)

\* C28: after a successful roster load the local roster holds one record
\* per document of the login collection, and in every record every boolean
\* flag field is a strict boolean, a flag absent from the stored document
\* being read as false.
C28_RosterNormalized ==
    [][RosterLoads =>
          /\ Len(users') = Cardinality(DOMAIN login)
          /\ \A id \in DOMAIN login : \E k \in DOMAIN users' : users'[k].id = id
          /\ \A k \in DOMAIN users' : \A f \in FlagFields :
                /\ HasField(users'[k], f)
                /\ users'[k][f] \in BOOLEAN
                /\ ~HasField(login[users'[k].id], f) => users'[k][f] = FALSE]_vars

(***************************************************************************)
(* The live session that does not exist.                                   *)
(***************************************************************************)
\* "No active quiz session" is on screen.
NoSessionShown == PanelRendered /\ liveSession = NoDoc

ErrorSlots == <<error, rowErrorMap, configError, lockError, chatError>>

\* C29: a snapshot that reports no document sets the local session to
\* null and sets no error slot; while the local session is null the "no
\* active session" view is shown in place of the session and its Lock
\* button, and no lock write is started; a snapshot in which the document
\* exists sets the local session to its data.
C29_AbsentSessionIsNotAnError ==
    [][/\ (LiveSnapshot /\ liveDoc = NoDoc)
             => liveSession' = NoDoc /\ UNCHANGED ErrorSlots
       /\ (LiveSnapshot /\ liveDoc # NoDoc) => liveSession' = liveDoc
       /\ liveSession = NoDoc
             => /\ ~LockButtonRendered
                /\ PanelRendered => NoSessionShown
                /\ lockOps' \subseteq lockOps]_vars

\* The session that was observed and locked has been removed, and the
\* snapshot without it has arrived.
C29_Witness ==
    /\ NoSessionShown
    /\ liveDoc = NoDoc
    /\ nLocks > 0
    /\ nExternal > 0

(***************************************************************************)
(* The options of the observed session.                                    *)
(***************************************************************************)
Highlighted(box) == box.backgroundColor # White

OptionsOf(session) == IF HasField(session, "options") THEN session.options ELSE <<>>

AnswerIndexIs(session, i) ==
    /\ HasField(session, "question")
    /\ HasField(session.question, "answerIndex")
    /\ session.question.answerIndex = i

\* C30: for every option index i of the observed session, option i is
\* highlighted exactly when i equals selected; a highlighted option is
\* pending-coloured while adminLocked is not set, green when adminLocked
\* is set and i is question.answerIndex, red when adminLocked is set and i
\* is not; an empty option is shown as hidden in its own position, so
\* that as many options are rendered as the list holds.
C30_OptionsRendering ==
    (PanelRendered /\ liveSession # NoDoc) =>
        LET boxes == RenderOptions(liveSession)
            options == OptionsOf(liveSession)
        IN /\ Len(boxes) = Len(options)
           /\ \A k \in 1 .. Len(options) :
                 LET i == k - 1
                     box == boxes[k]
                 IN /\ box.key = i
                    /\ Highlighted(box)
                          <=> (HasField(liveSession, "selected") /\ liveSession.selected = i)
                    /\ (Highlighted(box) /\ ~Truthy(liveSession, "adminLocked"))
                          => box.backgroundColor = Pending
                    /\ (Highlighted(box) /\ Truthy(liveSession, "adminLocked")
                          /\ AnswerIndexIs(liveSession, i))
                          => box.backgroundColor = Green
                    /\ (Highlighted(box) /\ Truthy(liveSession, "adminLocked")
                          /\ ~AnswerIndexIs(liveSession, i))
                          => box.backgroundColor = Red
                    /\ box.opacityReduced <=> options[k] = ""
                    /\ options[k] # "" => box.text = options[k]

\* A locked session is observed whose second option has been removed and
\* whose third option is selected and wrong.
C30_Witness ==
    /\ PanelRendered
    /\ liveSession # NoDoc
    /\ OptionsOf(liveSession) = <<"a", "", "c">>
    /\ HasField(liveSession, "selected") /\ liveSession.selected = 2
    /\ Truthy(liveSession, "adminLocked")
    /\ AnswerIndexIs(liveSession, 0)
    /\ RenderOptions(liveSession)[3].backgroundColor = Red

(***************************************************************************)
(* Failures of the admin check before its approval.                        *)
(***************************************************************************)
\* Invocation i fails at the uid lookup, the email query or the operator's
\* bootstrap write.
FailsBeforeApproval(i) ==
    /\ checks[i].pc \in {"getDoc", "byEmail", "bootstrap"}
    /\ CheckStoreFails(i)

\* C31: when the uid lookup, the email query or the bootstrap write of an
\* admin check fails, the invocation ends there: it does not set
\* currentUid, reads no roster and writes nothing, and in a mounted view
\* the global error holds the failure's message, loading is false and the
\* panel is not rendered.
C31_AuthorizationFailsClosed ==
    [][\A i \in DOMAIN checks :
          FailsBeforeApproval(i) =>
              /\ currentUid' = currentUid
              /\ users' = users
              /\ login' = login
              /\ Len(checks') = Len(checks) - 1
              /\ \A j \in DOMAIN checks' : checks'[j].pc = "roster" =>
                    \E k \in DOMAIN checks : k # i /\ checks[k] = checks'[j]
              /\ mounted => /\ error' = StoreError
                            /\ ~loading'
                            /\ ~PanelRendered']_vars

\* The operator, who has no record, is signed in and the check has ended
\* in a failure before its approval: the error view is shown.
C31_Witness ==
    /\ authUser = "u1"
    /\ "u1" \notin DOMAIN login
    /\ checks = <<>>
    /\ currentUid = Null
    /\ users = <<>>
    /\ error = StoreError
    /\ View = "error"

(***************************************************************************)
(* The state a sign-out leaves behind.                                     *)
(***************************************************************************)
\* Nobody is signed in and nothing of the session gate is in flight: the
\* provider holds no user, the listener has been told so, and every
\* handleSignOut that was started has run to its end.
SignedOut ==
    /\ mounted
    /\ currentUser = Null
    /\ pendingAuth = <<>>
    /\ authUser = Null
    /\ signOutOps = {}

\* C32: while nobody is signed in (a sign-out has completed and no
\* identity has signed in since, or none ever was), currentUid is null and
\* the local roster is empty, whatever admin check or roster read of the
\* earlier identity returns in the meantime.
C32_SignOutClearsAndStaysCleared ==
    SignedOut => currentUid = Null /\ users = <<>>

(***************************************************************************)
(* The loading screen and the unresolved identity.                         *)
(***************************************************************************)
\* C33: in every state in which loading is false, authUser is null or a
\* user and not the unresolved value: whatever ends the loading state has
\* resolved the identity first.
C33_LoadedImpliesResolved ==
    ~loading => authUser \in Uids \cup {Null}

\* The timer has ended the loading state with the identity null, and the
\* provider has then delivered the user, whose check is still running.
C33_Witness ==
    /\ mounted
    /\ ~loading
    /\ ~fallbackPending
    /\ authUser \in Uids
    /\ checks # <<>>
    /\ users = <<>>

(***************************************************************************)
(* Stored and shown flags of a row after its save.                         *)
(***************************************************************************)
\* The save of row id completes successfully in this step: afterwards the
\* row shows no error and no save in flight.
RowSaveSucceeds(id) ==
    /\ RowSaveCompletes(id)
    /\ RowErrorOf(id)' = Null
    /\ ~RowSavingOf(id)'

\* The six flags the local roster shows for row id after the step.
SixShownNext(id) ==
    LET k == CHOOSE k \in DOMAIN users' : users'[k].id = id
    IN [f \in ToggleFields |-> Truthy(users'[k], f)]

\* C34: when a row's save completes successfully, the six flags stored in
\* login/{id} are the six flags the roster shows for that row, whether or
\* not checkboxes of the row were toggled while the save was in flight.
C34_SavedRowMatchesStore ==
    [][\A id \in DocIds :
          (RowSaveSucceeds(id) /\ \E k \in DOMAIN users' : users'[k].id = id)
              => SixStoredNext(id) = SixShownNext(id)]_vars

(***************************************************************************)
(* The effect of one checkbox click.                                       *)
(***************************************************************************)
\* A checkbox is clicked in this step.
CheckboxClicked == nToggles' = nToggles + 1

\* The roster after the step is the roster before it with flag f of row k
\* negated and nothing else changed.
FlipsOnly(k, f) ==
    /\ DOMAIN users' = DOMAIN users
    /\ \A j \in DOMAIN users \ {k} : users'[j] = users[j]
    /\ DOMAIN users'[k] = DOMAIN users[k]
    /\ \A g \in DOMAIN users[k] \ {f} : users'[k][g] = users[k][g]
    /\ users[k][f] \in BOOLEAN
    /\ users'[k][f] = ~users[k][f]

\* C35: a checkbox click negates one flag of one row of the local roster
\* and changes nothing else in it, writes nothing to the store and starts
\* no save; the same click again gives back the roster as it was.
C35_ToggleFlipsOneFlagOfOneRow ==
    [][CheckboxClicked =>
          /\ \E k \in DOMAIN users : \E f \in ToggleFields :
                /\ FlipsOnly(k, f)
                /\ \A j \in DOMAIN users \ {k} : users[j].id # users[k].id
                /\ ToggleRow(users', users[k].id, f) = users
          /\ UNCHANGED <<login, chatStore, liveDoc, configDoc>>
          /\ UNCHANGED <<rowSaves, rowSaving, rowErrorMap>>]_vars

\* One click has been made, on bhajanquiz of row u2: the roster shows the
\* flag set, the stored record has no such flag, and no save was started.
C35_Witness ==
    /\ nToggles = 1
    /\ nSaves = 0
    /\ \E k \in DOMAIN users : users[k].id = "u2" /\ users[k].bhajanquiz = TRUE
    /\ \A k \in DOMAIN users : users[k].id = "u1" => users[k] = Roster(login)[k]
    /\ ~HasField(login["u2"], "bhajanquiz")

(***************************************************************************)
(* The end of a chat send.                                                 *)
(***************************************************************************)
SendFailedMessage == "Failed to send message. Please try again."

\* C36: in a step that ends a chat send the sending flag becomes false;
\* when the send failed (nothing was added to the collection) the input
\* still holds the text that was sent, the list is unchanged and the chat
\* error holds the failure message; when it succeeded the message is the
\* one added, the input is empty and the chat error is cleared.
C36_SendOutcome ==
    [][\A op \in chatOps \ chatOps' :
          /\ ~chatSending'
          /\ IF chatStore' = chatStore
               THEN /\ chatInput' = chatInput
                    /\ Trim(chatInput') = op.doc.text
                    /\ chatMessages' = chatMessages
                    /\ chatError' = SendFailedMessage
               ELSE /\ chatStore' = Append(chatStore, op.doc)
                    /\ chatInput' = ""
                    /\ chatError' = Null]_vars

\* A first send has succeeded and a second one has failed: its text is
\* still in the input, beside the failure message.
C36_Witness ==
    /\ nSends = 2
    /\ Len(chatStore) = 1
    /\ chatOps = {}
    /\ ~chatSending
    /\ chatError = SendFailedMessage
    /\ Trim(chatInput) = "hi"

====
